---- MODULE Spec2Model ----
(***************************************************************************)
(* A model of github.com/PhilipBorgesen/minecraft, package profile: the    *)
(* load operations, the response parsers, the lazily loaded fields of a    *)
(* Profile and the caching Store.                                          *)
(*                                                                         *)
(* The repository holds several revisions of the package.  The             *)
(* context-taking revision (profile.go, load.go lines 1-377) is modelled   *)
(* under the source's names; the older revision without contexts that the  *)
(* Store wraps (load.go lines 379-679, history.go) carries the suffix      *)
(* NoCtx where a name would clash.                                         *)
(***************************************************************************)
EXTENDS Integers, Sequences, FiniteSets, TLC

VARIABLES
    p,          \* the Profile instance the lazy-load methods are called on
    in,         \* the call a behaviour of a stateless operation makes
    ret,        \* what the last call returned (its operation, arguments, results)
    netLog,     \* the requests the last call sent to the transport
    cache,      \* the Cache of the Store (nil for a Store without one)
    calls       \* the lazy-load call each goroutine is in

vars == <<p, in, ret, netLog, cache, calls>>

(***************************************************************************)
(* Bounds of the model.                                                    *)
(***************************************************************************)
MaxHistLen == 2      \* longest name-history array the service answers with
MaxNames == 2        \* longest list of usernames given to LoadMany (besides the size-limit cases)

\* F applied to the value v: the body F of a block in which a local variable
\* holds v.
Let(v, F(_)) == F(v)

(***************************************************************************)
(* Decoded JSON (encoding/json into interface{}): every value carries its  *)
(* dynamic type, so that a type assertion can fail.                        *)
(***************************************************************************)
JStr(s) == [t |-> "string", s |-> s]
JBool(b) == [t |-> "bool", b |-> b]
JNum(n) == [t |-> "number", n |-> n]
JNull == [t |-> "null"]
JArr(a) == [t |-> "array", a |-> a]
JObj(m) == [t |-> "object", m |-> m]

\* A key that a generated object leaves out.
Absent == [t |-> "absent"]
\* The map holding the present keys of f.
MkObj(f) == JObj([k \in {x \in DOMAIN f : f[x].t # "absent"} |-> f[k]])

Has(m, k) == k \in DOMAIN m
\* v, ok := m[k]; v.(T) succeeds
Is(m, k, type) == Has(m, k) /\ m[k].t = type

(***************************************************************************)
(* Values of the profile package.                                          *)
(***************************************************************************)
\* time.Time as seconds and nanoseconds since the Unix epoch.  The zero Time
\* (January 1, year 1) lies outside the integers of the model and is flagged.
ZeroTime == [zero |-> TRUE, sec |-> 0, nsec |-> 0]
Time(sec, nsec) == [zero |-> FALSE, sec |-> sec, nsec |-> nsec]

\* A []PastName: nil, or a (possibly empty) slice.
NilHist == [nil |-> TRUE, v |-> <<>>]
Hist(s) == [nil |-> FALSE, v |-> s]
emptyHist == Hist(<<>>)

\* A *Properties: nil, or the struct pointed to.
NilProps == [nil |-> TRUE, SkinURL |-> "", CapeURL |-> "", Model |-> "Steve"]
Props(skin, cape, model) == [nil |-> FALSE, SkinURL |-> skin, CapeURL |-> cape, Model |-> model]

\* A *Profile: nil, or the struct pointed to.
NilProfile == [nil |-> TRUE, ID |-> "", Name |-> "", NameHistory |-> NilHist, Properties |-> NilProps]
MkProfile(id, name, hist, props) ==
    [nil |-> FALSE, ID |-> id, Name |-> name, NameHistory |-> hist, Properties |-> props]

\* A map with no keys, and m after m[k] = v.
EmptyMap == [k \in {} |-> 0]
Put(m, k, v) == [x \in DOMAIN m \cup {k} |-> IF x = k THEN v ELSE m[x]]

\* A Cache: the nil interface value, or a loggingTestCache.
NoCache ==
    [nil |-> TRUE, CacheReads |-> <<>>, EntriesByID |-> EmptyMap, IDsByName |-> EmptyMap,
     IDsByNameAndTime |-> EmptyMap]
newLoggingTestCache == [NoCache EXCEPT !.nil = FALSE]

(***************************************************************************)
(* Errors.  An error value is a record: Op and URL are set for a           *)
(* *url.Error, Err names the (wrapped) error, StatusCode and ErrorCode are *)
(* those of a wrapped *internal.FailedRequestError.                        *)
(***************************************************************************)
NoURL == <<>>
MkErr(op, url, err, status, code) ==
    [Op |-> op, URL |-> url, Err |-> err, StatusCode |-> status, ErrorCode |-> code]
NoErr == MkErr("", NoURL, "nil", 0, "")
Sentinel(name) == MkErr("", NoURL, name, 0, "")
ErrNoSuchProfile == Sentinel("ErrNoSuchProfile")
ErrTooManyRequests == Sentinel("ErrTooManyRequests")
ErrUnsetPlayerID == Sentinel("ErrUnsetPlayerID")
ErrUnknownFormat == Sentinel("ErrUnknownFormat")
ErrMaxSizeExceeded(n) == MkErr("", NoURL, "ErrMaxSizeExceeded", n, "")
FailedRequestError(status, code) == MkErr("", NoURL, "FailedRequestError", status, code)
\* &url.Error{Op: op, URL: url, Err: inner}
URLError(op, url, inner) == MkErr(op, url, inner.Err, inner.StatusCode, inner.ErrorCode)

(***************************************************************************)
(* The transport.  What the http.Client and the service do with a request  *)
(* is an input of each call: either client.Do fails with doErr (a          *)
(* *url.Error around the cause), or a response arrives with a status and a *)
(* body that decodes to j or does not decode (parseOk false).              *)
(***************************************************************************)
Failure(cause) == [doErr |-> cause, status |-> 0, parseOk |-> FALSE, j |-> JNull]
Response(status, j) == [doErr |-> NoErr, status |-> status, parseOk |-> TRUE, j |-> j]
Garbage(status) == [doErr |-> NoErr, status |-> status, parseOk |-> FALSE, j |-> JNull]

\* A request as the transport sees it.
Request(method, endpoint, body) == [method |-> method, endpoint |-> endpoint, body |-> body]

\* The endpoints (fmt.Sprintf of the URL constants with the arguments).
loadURL(username) == <<"loadURL", username>>
loadAtTimeURL(username, unix) == <<"loadAtTimeURL", username, unix>>
loadWithNameHistoryURL(id) == <<"loadWithNameHistoryURL", id>>
loadWithPropertiesURL(id) == <<"loadWithPropertiesURL", id>>
loadManyURL == <<"loadManyURL">>

\* internal.parseResponse
parseResponse(r, statusCode, op, endpoint) ==
    IF statusCode # 200
    THEN LET code == IF r.parseOk /\ r.j.t = "object" /\ Is(r.j.m, "error", "string")
                     THEN r.j.m["error"].s ELSE ""
         IN  [j |-> JNull, err |-> URLError(op, endpoint, FailedRequestError(statusCode, code))]
    ELSE IF ~r.parseOk
    THEN [j |-> JNull, err |-> URLError("Parse", endpoint, Sentinel("json.SyntaxError"))]
    ELSE [j |-> r.j, err |-> NoErr]

\* internal.FetchJSON
FetchJSON(endpoint, out) ==
    IF out.doErr # NoErr
    THEN [j |-> JNull, err |-> URLError("Get", endpoint, out.doErr)]
    ELSE parseResponse(out, out.status, "Get", endpoint)

\* internal.ExchangeJSON (encoding a []string cannot fail)
ExchangeJSON(endpoint, data, out) ==
    IF out.doErr # NoErr
    THEN [j |-> JNull, err |-> URLError("Post", endpoint, out.doErr)]
    ELSE parseResponse(out, out.status, "Post", endpoint)

\* internal.UnwrapFailedRequestError: ok
UnwrapFailedRequestError(uerr) == uerr.Op # "" /\ uerr.Err = "FailedRequestError"

\* A classification that looks at the service error code only.
transformErrorByCodeOnly(src) ==
    IF UnwrapFailedRequestError(src) /\ src.ErrorCode = "TooManyRequestsException"
    THEN ErrTooManyRequests
    ELSE src

transformError(src) ==
    IF UnwrapFailedRequestError(src) /\ src.StatusCode = 204 THEN ErrNoSuchProfile
    ELSE IF UnwrapFailedRequestError(src) /\ src.ErrorCode = "TooManyRequestsException"
    THEN ErrTooManyRequests
    ELSE src

(***************************************************************************)
(* The parsers of load.go.  A parser that panics (a failed type assertion, *)
(* an index out of range) yields panic = TRUE.                             *)
(***************************************************************************)
Panicked == [panic |-> TRUE, p |-> NilProfile, err |-> NoErr]
Returned(prof, err) == [panic |-> FALSE, p |-> prof, err |-> err]

\* A profile builder that does not look at the demo flag.
buildProfileKeepingDemo(m, demoErr) ==
    IF ~Is(m, "id", "string") \/ ~Is(m, "name", "string") THEN Panicked
    ELSE IF Has(m, "legacy") /\ m["legacy"].t # "bool" THEN Panicked
    ELSE Returned(MkProfile(m["id"].s, m["name"].s,
                            IF Has(m, "legacy") /\ m["legacy"].b THEN emptyHist ELSE NilHist,
                            NilProps),
                  NoErr)

buildProfile(m, demoErr) ==
    IF Has(m, "demo") /\ m["demo"].t # "bool" THEN Panicked
    ELSE IF Has(m, "demo") /\ m["demo"].b THEN Returned(NilProfile, demoErr)
    ELSE IF ~Is(m, "id", "string") \/ ~Is(m, "name", "string") THEN Panicked
    ELSE IF Has(m, "legacy") /\ m["legacy"].t # "bool" THEN Panicked
    ELSE Returned(MkProfile(m["id"].s, m["name"].s,
                            IF Has(m, "legacy") /\ m["legacy"].b THEN emptyHist ELSE NilHist,
                            NilProps),
                  NoErr)

\* What fillProfile did to the Profile prof: it panicked, or returned ok.
Filled(panic, ok, prof) == [panic |-> panic, ok |-> ok, p |-> prof]

\* fillProfile that gives every legacy profile the empty history.
fillProfileOverwritingHistory(prof, m) ==
    IF Has(m, "demo") /\ m["demo"].t # "bool" THEN Filled(TRUE, FALSE, prof)
    ELSE IF Has(m, "demo") /\ m["demo"].b THEN Filled(FALSE, FALSE, prof)
    ELSE IF ~Is(m, "id", "string") \/ ~Is(m, "name", "string") THEN Filled(TRUE, FALSE, prof)
    ELSE IF Has(m, "legacy") /\ m["legacy"].t # "bool" THEN Filled(TRUE, FALSE, prof)
    ELSE Filled(FALSE, TRUE,
                [prof EXCEPT !.ID = m["id"].s, !.Name = m["name"].s,
                             !.NameHistory = IF Has(m, "legacy") /\ m["legacy"].b
                                             THEN emptyHist ELSE @])

\* fillProfile of part_005 (used by the loaders of load.go 722-853): the
\* type assertions on id and name come before any write to p, and legacy
\* is looked at only when p.NameHistory is nil.
fillProfile(prof, m) ==
    IF Has(m, "demo") /\ m["demo"].t # "bool" THEN Filled(TRUE, FALSE, prof)
    ELSE IF Has(m, "demo") /\ m["demo"].b THEN Filled(FALSE, FALSE, prof)
    ELSE IF ~Is(m, "id", "string") \/ ~Is(m, "name", "string") THEN Filled(TRUE, FALSE, prof)
    ELSE IF prof.NameHistory.nil /\ Has(m, "legacy") /\ m["legacy"].t # "bool"
    THEN Filled(TRUE, FALSE, prof)
    ELSE Filled(FALSE, TRUE,
                [prof EXCEPT !.ID = m["id"].s, !.Name = m["name"].s,
                             !.NameHistory = IF @.nil /\ Has(m, "legacy") /\ m["legacy"].b
                                             THEN emptyHist ELSE @])

\* Go's integer division truncates toward zero.
Quot(a, b) == IF a >= 0 THEN a \div b ELSE -((-a) \div b)

\* time.Unix(s, ns) normalises ns into [0, 1e9).
msToTime(ms) ==
    LET s == Quot(ms, 1000)
        ns == (ms - s * 1000) * 1000000
    IN  IF ns < 0 THEN Time(s - 1, ns + 1000000000)
        ELSE Time(s, ns)

PastName(name, until) == [Name |-> name, Until |-> until]

HistPanicked == [panic |-> TRUE, name |-> "", hist |-> NilHist]

\* The loop of buildHistory writing the names in the order of the array:
\* hist[i].Name instead of hist[h].Name.
RECURSIVE buildHistoryLoopAscending(_, _, _, _)
buildHistoryLoopAscending(arr, i, hist, h) ==
    IF i >= Len(arr) THEN [panic |-> FALSE, name |-> "", hist |-> Hist(hist)]
    ELSE IF arr[i + 1].t # "object" THEN HistPanicked
    ELSE LET m == arr[i + 1].m
             stamp == Has(m, "changedToAt") /\ i > 0
         IN  IF stamp /\ m["changedToAt"].t # "number" THEN HistPanicked
             ELSE LET stamped == IF stamp
                                 THEN [hist EXCEPT ![h + 2].Until = msToTime(m["changedToAt"].n)]
                                 ELSE hist
                  IN  IF ~Is(m, "name", "string") THEN HistPanicked
                      ELSE IF i = Len(hist)
                      THEN [panic |-> FALSE, name |-> m["name"].s, hist |-> Hist(stamped)]
                      ELSE buildHistoryLoopAscending(arr, i + 1,
                                                     [stamped EXCEPT ![i + 1].Name = m["name"].s],
                                                     h - 1)

\* The loop of buildHistory without the test "i > 0": the stamp of arr[0]
\* goes to hist[len(hist)], which is out of range.
RECURSIVE buildHistoryLoopStampingFirst(_, _, _, _)
buildHistoryLoopStampingFirst(arr, i, hist, h) ==
    IF i >= Len(arr) THEN [panic |-> FALSE, name |-> "", hist |-> Hist(hist)]
    ELSE IF arr[i + 1].t # "object" THEN HistPanicked
    ELSE LET m == arr[i + 1].m
             stamp == Has(m, "changedToAt")
         IN  IF stamp /\ (m["changedToAt"].t # "number" \/ h + 2 > Len(hist)) THEN HistPanicked
             ELSE LET stamped == IF stamp
                                 THEN [hist EXCEPT ![h + 2].Until = msToTime(m["changedToAt"].n)]
                                 ELSE hist
                  IN  IF ~Is(m, "name", "string") THEN HistPanicked
                      ELSE IF i = Len(hist)
                      THEN [panic |-> FALSE, name |-> m["name"].s, hist |-> Hist(stamped)]
                      ELSE buildHistoryLoopStampingFirst(arr, i + 1,
                                                         [stamped EXCEPT ![h + 1].Name = m["name"].s],
                                                         h - 1)

\* The loop of buildHistory at index i (from 0), hist being the slice as
\* written so far and h the index the next name goes to.
RECURSIVE buildHistoryLoop(_, _, _, _)
buildHistoryLoop(arr, i, hist, h) ==
    IF i >= Len(arr) THEN [panic |-> FALSE, name |-> "", hist |-> Hist(hist)]
    ELSE IF arr[i + 1].t # "object" THEN HistPanicked
    ELSE LET m == arr[i + 1].m
             stamp == Has(m, "changedToAt") /\ i > 0
         IN  IF stamp /\ m["changedToAt"].t # "number" THEN HistPanicked
             ELSE LET stamped == IF stamp
                                 THEN [hist EXCEPT ![h + 2].Until = msToTime(m["changedToAt"].n)]
                                 ELSE hist
                  IN  IF ~Is(m, "name", "string") THEN HistPanicked
                      ELSE IF i = Len(hist)
                      THEN [panic |-> FALSE, name |-> m["name"].s, hist |-> Hist(stamped)]
                      ELSE buildHistoryLoop(arr, i + 1,
                                            [stamped EXCEPT ![h + 1].Name = m["name"].s], h - 1)

buildHistory(arr) ==
    IF Len(arr) = 0 THEN [panic |-> FALSE, name |-> "", hist |-> NilHist]
    ELSE buildHistoryLoop(arr, 0, [k \in 1 .. (Len(arr) - 1) |-> PastName("", ZeroTime)],
                          Len(arr) - 2)

(***************************************************************************)
(* Properties.  A string the code indexes byte by byte (a player UUID) is  *)
(* held as a sequence of one-character strings.                            *)
(***************************************************************************)
Steve == "Steve"
Alex == "Alex"

Digits == <<"0", "1", "2", "3", "4", "5", "6", "7", "8", "9">>
Letters == <<"a", "b", "c", "d", "e", "f", "g">>
\* The byte value of a character.
Ord(c) ==
    IF \E i \in 1 .. Len(Digits) : Digits[i] = c
    THEN 47 + (CHOOSE i \in 1 .. Len(Digits) : Digits[i] = c)
    ELSE IF \E i \in 1 .. Len(Letters) : Letters[i] = c
    THEN 96 + (CHOOSE i \in 1 .. Len(Letters) : Letters[i] = c)
    ELSE IF c = "-" THEN 45
    ELSE 70      \* "F"

\* isEven telling the parity of a letter as that of a digit, by the lowest
\* bit of its byte.
isEvenByLowestBit(c) ==
    Let(Ord(c), LAMBDA b :
        IF b >= 48 /\ b <= 57 THEN [panic |-> FALSE, v |-> (b % 2) = 0]
        ELSE IF b >= 97 /\ b <= 102 THEN [panic |-> FALSE, v |-> (b % 2) = 0]
        ELSE [panic |-> TRUE, v |-> FALSE])

isEven(c) ==
    Let(Ord(c), LAMBDA b :
        IF b >= 48 /\ b <= 57 THEN [panic |-> FALSE, v |-> (b % 2) = 0]
        ELSE IF b >= 97 /\ b <= 102 THEN [panic |-> FALSE, v |-> (b % 2) = 1]
        ELSE [panic |-> TRUE, v |-> FALSE])

\* The model for the parities a, b, c, d of the four characters.
modelOf(a, b, c, d) ==
    IF a.panic \/ b.panic \/ c.panic \/ d.panic THEN [panic |-> TRUE, v |-> Steve]
    ELSE IF (a.v # b.v) # (c.v # d.v) THEN [panic |-> FALSE, v |-> Alex]
    ELSE [panic |-> FALSE, v |-> Steve]

\* uuid[7], uuid[16+7], uuid[15], uuid[16+15] are the 8th, 24th, 16th and
\* 32nd characters.
defaultModel(uuid) ==
    IF Len(uuid) < 32 THEN [panic |-> TRUE, v |-> Steve]
    ELSE modelOf(isEven(uuid[8]), isEven(uuid[24]), isEven(uuid[16]), isEven(uuid[32]))

Zeros(n) == [i \in 1 .. n |-> "0"]
SkinOnly == [SKIN |-> JObj([url |-> JStr("s.png")])]
SkinSlimCape ==
    [SKIN |-> JObj([url |-> JStr("s.png"), metadata |-> JObj([model |-> JStr("slim")])]),
     CAPE |-> JObj([url |-> JStr("c.png")])]
SkinWide == [SKIN |-> JObj([url |-> JStr("s.png"), metadata |-> JObj([model |-> JStr("wide")])])]
NoTextures == [k \in {} |-> JNull]

\* base64.StdEncoding.DecodeString followed by json.Decode into a
\* map[string]interface{}, on the encoded values the service is taken to
\* send: b64 and json tell whether each step succeeds, m is the decoded map
\* (a JSON null decodes to the nil map, which reads like the empty map).
decodeTextures(enc) ==
    CASE enc = "eyJ0ZXh0dXJlcyI6eyJTS0lOIjp7InVybCI6InMucG5nIn19fQ=="
           \* {"textures":{"SKIN":{"url":"s.png"}}}
           -> [b64 |-> TRUE, json |-> TRUE, m |-> [textures |-> JObj(SkinOnly)]]
      [] enc = "eyJ0ZXh0dXJlcyI6eyJTS0lOIjp7InVybCI6InMucG5nIiwibWV0YWRhdGEiOnsibW9kZWwiOiJzbGltIn19LCJDQVBFIjp7InVybCI6ImMucG5nIn19fQ=="
           \* {"textures":{"SKIN":{"url":"s.png","metadata":{"model":"slim"}},"CAPE":{"url":"c.png"}}}
           -> [b64 |-> TRUE, json |-> TRUE, m |-> [textures |-> JObj(SkinSlimCape)]]
      [] enc = "eyJ0ZXh0dXJlcyI6eyJTS0lOIjp7InVybCI6InMucG5nIiwibWV0YWRhdGEiOnsibW9kZWwiOiJ3aWRlIn19fX0="
           \* {"textures":{"SKIN":{"url":"s.png","metadata":{"model":"wide"}}}}
           -> [b64 |-> TRUE, json |-> TRUE, m |-> [textures |-> JObj(SkinWide)]]
      [] enc = "eyJ0ZXh0dXJlcyI6e30sInByb2ZpbGVJZCI6IjAwMDAwMDAwMDAwMDAwMDAwMDAwMDAwMDAwMDAwMDAxIn0="
           \* {"textures":{},"profileId":"00000000000000000000000000000001"}
           -> [b64 |-> TRUE, json |-> TRUE,
               m |-> [textures |-> JObj(NoTextures),
                      profileId |-> JStr([Zeros(32) EXCEPT ![32] = "1"])]]
      [] enc = "eyJ0ZXh0dXJlcyI6eyJDQVBFIjp7InVybCI6ImMucG5nIn19LCJwcm9maWxlSWQiOiIwMDAwMDAwMDAwMDAwMDAwMDAwMDAwMDAwMDAwMDAwMCJ9"
           \* {"textures":{"CAPE":{"url":"c.png"}},"profileId":"00000000000000000000000000000000"}
           -> [b64 |-> TRUE, json |-> TRUE,
               m |-> [textures |-> JObj([CAPE |-> JObj([url |-> JStr("c.png")])]),
                      profileId |-> JStr(Zeros(32))]]
      [] enc = "eyJ0ZXh0dXJlcyI6e30sInByb2ZpbGVJZCI6IjAwMDAwMDAifQ=="
           \* {"textures":{},"profileId":"0000000"}
           -> [b64 |-> TRUE, json |-> TRUE,
               m |-> [textures |-> JObj(NoTextures), profileId |-> JStr(Zeros(7))]]
      [] enc = "eyJ0ZXh0dXJlcyI6e30sInByb2ZpbGVJZCI6IjAwMDAwMDBnMDAwMDAwMDAwMDAwMDAwMDAwMDAwMDAwIn0="
           \* {"textures":{},"profileId":"0000000g000000000000000000000000"}
           -> [b64 |-> TRUE, json |-> TRUE,
               m |-> [textures |-> JObj(NoTextures),
                      profileId |-> JStr([Zeros(32) EXCEPT ![8] = "g"])]]
      [] enc = "eyJ0ZXh0dXJlcyI6eyJTS0lOIjp7InVybCI6N319fQ=="
           \* {"textures":{"SKIN":{"url":7}}}
           -> [b64 |-> TRUE, json |-> TRUE,
               m |-> [textures |-> JObj([SKIN |-> JObj([url |-> JNum(7)])])]]
      [] enc = "bnVsbA=="     \* null
           -> [b64 |-> TRUE, json |-> TRUE, m |-> NoTextures]
      [] enc = "e30="         \* {}
           -> [b64 |-> TRUE, json |-> TRUE, m |-> NoTextures]
      [] enc = "W10="         \* []
           -> [b64 |-> TRUE, json |-> FALSE, m |-> NoTextures]
      [] enc = "eA=="         \* x
           -> [b64 |-> TRUE, json |-> FALSE, m |-> NoTextures]
      [] OTHER                \* not base64, such as "!"
           -> [b64 |-> FALSE, json |-> FALSE, m |-> NoTextures]

\* What populateTextures has made of props: it panicked, failed, or returned.
PropsPanicked(props) == [panic |-> TRUE, err |-> NoErr, props |-> props]
PropsFailed(err, props) == [panic |-> FALSE, err |-> err, props |-> props]
PropsDone(props) == [panic |-> FALSE, err |-> NoErr, props |-> props]

\* populateTextures: the model a skin's metadata gives props.
populateModel(skin, props) ==
    IF ~Has(skin, "metadata") THEN PropsDone(props)
    ELSE IF skin["metadata"].t # "object" THEN PropsPanicked(props)
    ELSE IF ~Has(skin["metadata"].m, "model") THEN PropsDone(props)
    ELSE IF skin["metadata"].m["model"].t # "string" THEN PropsPanicked(props)
    ELSE IF skin["metadata"].m["model"].s = "slim" THEN PropsDone([props EXCEPT !.Model = Alex])
    ELSE PropsDone(props)

\* populateTextures that leaves the model alone unless the skin is slim
\* (without "props.Model = Steve").
populateSkinKeepingModel(j, ts, props) ==
    IF Has(ts, "SKIN")
    THEN IF ts["SKIN"].t # "object" \/ ~Is(ts["SKIN"].m, "url", "string")
         THEN PropsPanicked(props)
         ELSE populateModel(ts["SKIN"].m, [props EXCEPT !.SkinURL = ts["SKIN"].m["url"].s])
    ELSE IF ~Is(j, "profileId", "string") THEN PropsPanicked(props)
         ELSE Let(defaultModel(j["profileId"].s), LAMBDA dm :
                  IF dm.panic THEN PropsPanicked(props)
                  ELSE PropsDone([props EXCEPT !.Model = dm.v]))

\* populateTextures: the skin URL and the model, from the document j and its
\* textures ts.
populateSkin(j, ts, props) ==
    IF Has(ts, "SKIN")
    THEN IF ts["SKIN"].t # "object" \/ ~Is(ts["SKIN"].m, "url", "string")
         THEN PropsPanicked(props)
         ELSE populateModel(ts["SKIN"].m,
                            [props EXCEPT !.SkinURL = ts["SKIN"].m["url"].s, !.Model = Steve])
    ELSE IF ~Is(j, "profileId", "string") THEN PropsPanicked(props)
         ELSE Let(defaultModel(j["profileId"].s), LAMBDA dm :
                  IF dm.panic THEN PropsPanicked(props)
                  ELSE PropsDone([props EXCEPT !.Model = dm.v]))

\* populateTextures: the cape URL, r being what the skin has made of props.
populateCape(ts, r) ==
    IF r.panic \/ ~Has(ts, "CAPE") THEN r
    ELSE IF ts["CAPE"].t # "object" \/ ~Is(ts["CAPE"].m, "url", "string")
    THEN PropsPanicked(r.props)
    ELSE PropsDone([r.props EXCEPT !.CapeURL = ts["CAPE"].m["url"].s])

populateTextures(enc, props) ==
    Let(decodeTextures(enc), LAMBDA d :
        IF ~d.b64 THEN PropsFailed(Sentinel("base64.CorruptInputError"), props)
        ELSE IF ~d.json THEN PropsFailed(Sentinel("json.Error"), props)
        ELSE IF ~Is(d.m, "textures", "object") THEN PropsPanicked(props)
        ELSE populateCape(d.m["textures"].m, populateSkin(d.m, d.m["textures"].m, props)))

\* propertyPopulators
HasPopulator(name) == name = "textures"

\* The loop of buildProperties calling the populator of every name, which
\* for a name without one is a nil function.
RECURSIVE buildPropertiesLoopCallingAny(_, _, _)
buildPropertiesLoopCallingAny(props, i, ps) ==
    IF i > Len(props) THEN [panic |-> FALSE, ps |-> ps, err |-> NoErr]
    ELSE IF props[i].t # "object" THEN [panic |-> TRUE, ps |-> ps, err |-> NoErr]
    ELSE IF ~Is(props[i].m, "name", "string") \/ ~Is(props[i].m, "value", "string")
    THEN [panic |-> TRUE, ps |-> ps, err |-> NoErr]
    ELSE IF HasPopulator(props[i].m["name"].s)
    THEN Let(populateTextures(props[i].m["value"].s, ps), LAMBDA r :
             IF r.panic THEN [panic |-> TRUE, ps |-> r.props, err |-> NoErr]
             ELSE IF r.err # NoErr THEN [panic |-> FALSE, ps |-> NilProps, err |-> r.err]
             ELSE buildPropertiesLoopCallingAny(props, i + 1, r.props))
    ELSE [panic |-> TRUE, ps |-> ps, err |-> NoErr]

\* The loop of buildProperties from the i-th element on, ps being the
\* property set as populated so far.
RECURSIVE buildPropertiesLoop(_, _, _)
buildPropertiesLoop(props, i, ps) ==
    IF i > Len(props) THEN [panic |-> FALSE, ps |-> ps, err |-> NoErr]
    ELSE IF props[i].t # "object" THEN [panic |-> TRUE, ps |-> ps, err |-> NoErr]
    ELSE IF ~Is(props[i].m, "name", "string") \/ ~Is(props[i].m, "value", "string")
    THEN [panic |-> TRUE, ps |-> ps, err |-> NoErr]
    ELSE IF HasPopulator(props[i].m["name"].s)
    THEN Let(populateTextures(props[i].m["value"].s, ps), LAMBDA r :
             IF r.panic THEN [panic |-> TRUE, ps |-> r.props, err |-> NoErr]
             ELSE IF r.err # NoErr THEN [panic |-> FALSE, ps |-> NilProps, err |-> r.err]
             ELSE buildPropertiesLoop(props, i + 1, r.props))
    ELSE buildPropertiesLoop(props, i + 1, ps)

buildProperties(props) == buildPropertiesLoop(props, 1, Props("", "", Steve))

(***************************************************************************)
(* The load operations of load.go (the revision taking a context).  Each   *)
(* returns the named results p and err and the requests it sent.  The      *)
(* deferred functions that recover from a panicking parse take the named   *)
(* results as they stand when the panic unwinds.                           *)
(***************************************************************************)
Results(prof, err, net) == [p |-> prof, err |-> err, net |-> net]

\* The GET request for endpoint, as the log of a call.
Get(endpoint) == <<Request("GET", endpoint, <<>>)>>

\* A deferred function that reports the format error without the endpoint.
recoverWithoutEndpoint(endpoint, named) ==
    [named EXCEPT !.err = URLError("Parse", NoURL, ErrUnknownFormat)]

\* The deferred function of loadByName and of LoadWithNameHistory.
recoverUnknownFormat(endpoint, named) ==
    [named EXCEPT !.err = URLError("Parse", endpoint, ErrUnknownFormat)]

loadByName(endpoint, out) ==
    Let(FetchJSON(endpoint, out), LAMBDA f :
        IF f.err = NoErr
        THEN IF f.j.t # "object"
             THEN recoverUnknownFormat(endpoint, Results(NilProfile, NoErr, Get(endpoint)))
             ELSE Let(buildProfile(f.j.m, ErrNoSuchProfile), LAMBDA b :
                      IF b.panic
                      THEN recoverUnknownFormat(endpoint, Results(NilProfile, NoErr, Get(endpoint)))
                      ELSE Results(b.p, b.err, Get(endpoint)))
        ELSE Results(NilProfile, transformError(f.err), Get(endpoint)))

\* Load without its check for the empty username.
LoadSkippingEmptyCheck(username, out) == loadByName(loadURL(username), out)

Load(username, out) ==
    IF username = "" THEN Results(NilProfile, ErrNoSuchProfile, <<>>)
    ELSE loadByName(loadURL(username), out)

LoadAtTime(username, t, out) ==
    IF username = "" THEN Results(NilProfile, ErrNoSuchProfile, <<>>)
    ELSE loadByName(loadAtTimeURL(username, t.sec), out)

\* LoadWithNameHistory once the endpoint is formatted.
fetchNameHistory(id, endpoint, out) ==
    Let(FetchJSON(endpoint, out), LAMBDA f :
        IF f.err = NoErr
        THEN IF f.j.t # "array"
             THEN recoverUnknownFormat(endpoint, Results(NilProfile, NoErr, Get(endpoint)))
             ELSE Let(buildHistory(f.j.a), LAMBDA b :
                      IF b.panic
                      THEN recoverUnknownFormat(endpoint, Results(NilProfile, NoErr, Get(endpoint)))
                      ELSE Results(MkProfile(id, b.name, b.hist, NilProps), NoErr, Get(endpoint)))
        ELSE Results(NilProfile, transformError(f.err), Get(endpoint)))

LoadWithNameHistory(id, out) ==
    IF id = "" THEN Results(NilProfile, ErrNoSuchProfile, <<>>)
    ELSE fetchNameHistory(id, loadWithNameHistoryURL(id), out)

LoadByID(id, out) == LoadWithNameHistory(id, out)

\* A deferred function for LoadWithProperties that sets err and leaves p.
recoverKeepingProfile(endpoint, named) ==
    [named EXCEPT !.err = URLError("Parse", endpoint, ErrUnknownFormat)]

\* The deferred function of LoadWithProperties, which also clears p.
recoverClearingProfile(endpoint, named) ==
    [named EXCEPT !.err = URLError("Parse", endpoint, ErrUnknownFormat), !.p = NilProfile]

\* LoadWithProperties from the assignment of p on: m is the document, b what
\* buildProfile made of it.
attachProperties(endpoint, m, b) ==
    IF b.panic THEN recoverClearingProfile(endpoint, Results(NilProfile, NoErr, Get(endpoint)))
    ELSE IF b.err # NoErr THEN Results(NilProfile, b.err, Get(endpoint))
    ELSE IF ~Is(m, "properties", "array")
    THEN recoverClearingProfile(endpoint, Results(b.p, NoErr, Get(endpoint)))
    ELSE Let(buildProperties(m["properties"].a), LAMBDA bp :
             IF bp.panic
             THEN recoverClearingProfile(endpoint, Results(b.p, NoErr, Get(endpoint)))
             ELSE IF bp.err # NoErr
             THEN Results(NilProfile, URLError("Parse", endpoint, bp.err), Get(endpoint))
             ELSE Results([b.p EXCEPT !.Properties = bp.ps], NoErr, Get(endpoint)))

\* LoadWithProperties once the endpoint is formatted.
fetchProperties(endpoint, out) ==
    Let(FetchJSON(endpoint, out), LAMBDA f :
        IF f.err = NoErr
        THEN IF f.j.t # "object"
             THEN recoverClearingProfile(endpoint, Results(NilProfile, NoErr, Get(endpoint)))
             ELSE attachProperties(endpoint, f.j.m, buildProfile(f.j.m, ErrNoSuchProfile))
        ELSE Results(NilProfile, transformError(f.err), Get(endpoint)))

LoadWithProperties(id, out) ==
    IF id = "" THEN Results(NilProfile, ErrNoSuchProfile, <<>>)
    ELSE fetchProperties(loadWithPropertiesURL(id), out)

LoadManyMaxSize == 100

\* A []*Profile: nil, or a (possibly empty) slice.
NilSlice == [nil |-> TRUE, v |-> <<>>]
Slice(s) == [nil |-> FALSE, v |-> s]
ManyResults(ps, err, net) == [ps |-> ps, err |-> err, net |-> net]

\* The deferred function of LoadMany, which also clears ps.
recoverClearingSlice(named) ==
    [named EXCEPT !.err = URLError("Parse", loadManyURL, ErrUnknownFormat), !.ps = NilSlice]

\* The loop of LoadMany over the response array from its i-th element on.
RECURSIVE LoadManyLoop(_, _, _)
LoadManyLoop(j, i, ps) ==
    IF i > Len(j) THEN [panic |-> FALSE, ps |-> ps, err |-> NoErr]
    ELSE IF j[i].t # "object" THEN [panic |-> TRUE, ps |-> ps, err |-> NoErr]
    ELSE Let(buildProfile(j[i].m, ErrNoSuchProfile), LAMBDA b :
             IF b.panic THEN [panic |-> TRUE, ps |-> ps, err |-> NoErr]
             ELSE IF b.err = ErrNoSuchProfile THEN LoadManyLoop(j, i + 1, ps)
             ELSE IF b.err # NoErr THEN [panic |-> FALSE, ps |-> NilSlice, err |-> b.err]
             ELSE LoadManyLoop(j, i + 1, Slice(Append(ps.v, b.p))))

\* LoadMany from the request on, users being the usernames that are not
\* empty.
exchangeMany(users, out) ==
    Let(ExchangeJSON(loadManyURL, users, out), LAMBDA f :
        IF f.err = NoErr
        THEN IF f.j.t # "array"
             THEN recoverClearingSlice(
                      ManyResults(NilSlice, NoErr, <<Request("POST", loadManyURL, users)>>))
             ELSE Let(LoadManyLoop(f.j.a, 1, Slice(<<>>)), LAMBDA l :
                      IF l.panic
                      THEN recoverClearingSlice(
                               ManyResults(l.ps, NoErr, <<Request("POST", loadManyURL, users)>>))
                      ELSE ManyResults(l.ps, l.err, <<Request("POST", loadManyURL, users)>>))
        ELSE ManyResults(NilSlice, transformError(f.err),
                         <<Request("POST", loadManyURL, users)>>))

\* LoadMany refusing a list of LoadManyMaxSize usernames.
LoadManyRefusingLimit(usernames, out) ==
    IF Len(usernames) >= LoadManyMaxSize
    THEN ManyResults(NilSlice, ErrMaxSizeExceeded(Len(usernames)), <<>>)
    ELSE IF Len(SelectSeq(usernames, LAMBDA u : u # "")) = 0
    THEN ManyResults(NilSlice, NoErr, <<>>)
    ELSE exchangeMany(SelectSeq(usernames, LAMBDA u : u # ""), out)

\* LoadMany sending the usernames as given.
LoadManySendingEmpty(usernames, out) ==
    IF Len(usernames) > LoadManyMaxSize
    THEN ManyResults(NilSlice, ErrMaxSizeExceeded(Len(usernames)), <<>>)
    ELSE IF Len(usernames) = 0
    THEN ManyResults(NilSlice, NoErr, <<>>)
    ELSE exchangeMany(usernames, out)

LoadMany(usernames, out) ==
    IF Len(usernames) > LoadManyMaxSize
    THEN ManyResults(NilSlice, ErrMaxSizeExceeded(Len(usernames)), <<>>)
    ELSE IF Len(SelectSeq(usernames, LAMBDA u : u # "")) = 0
    THEN ManyResults(NilSlice, NoErr, <<>>)
    ELSE exchangeMany(SelectSeq(usernames, LAMBDA u : u # ""), out)

(***************************************************************************)
(* The lazily loaded fields of a Profile (profile.go).  Each method        *)
(* returns the profile as it leaves it, its local variable loaded, the     *)
(* value and error it returns and the requests it sent.                    *)
(***************************************************************************)
\* A method that loads on every call.
AlwaysLoad(fieldIsNil, force) == TRUE

\* The condition under which the method loads: the field is unknown, or the
\* caller forces a reload.
NeedsLoad(fieldIsNil, force) == fieldIsNil \/ force

\* A method that reports the error of the load as it is.
keepError(err, id) == err

\* A failed load of a profile without ID is reported as ErrUnsetPlayerID.
remapUnsetID(err, id) == IF err = ErrNoSuchProfile /\ id = "" THEN ErrUnsetPlayerID ELSE err

\* return p.NameHistory, err
ReturnNameHistory(prof, loaded, err, net) ==
    [prof |-> prof, loaded |-> loaded, hist |-> prof.NameHistory, props |-> NilProps,
     err |-> err, net |-> net]

\* return p.Properties, err
ReturnProperties(prof, loaded, err, net) ==
    [prof |-> prof, loaded |-> loaded, hist |-> NilHist, props |-> prof.Properties,
     err |-> err, net |-> net]

\* LoadNameHistory writing the fields of loaded whether or not the load failed.
LoadNameHistoryPublishingFailure(prof, force, out) ==
    IF NeedsLoad(prof.NameHistory.nil, force)
    THEN Let(LoadWithNameHistory(prof.ID, out), LAMBDA l :
             ReturnNameHistory([prof EXCEPT !.Name = l.p.Name, !.NameHistory = l.p.NameHistory],
                               l.p, remapUnsetID(l.err, prof.ID), l.net))
    ELSE ReturnNameHistory(prof, NilProfile, NoErr, <<>>)

LoadNameHistory(prof, force, out) ==
    IF NeedsLoad(prof.NameHistory.nil, force)
    THEN Let(LoadWithNameHistory(prof.ID, out), LAMBDA l :
             IF l.err # NoErr
             THEN ReturnNameHistory(prof, l.p, remapUnsetID(l.err, prof.ID), l.net)
             ELSE ReturnNameHistory(
                      [prof EXCEPT !.Name = l.p.Name, !.NameHistory = l.p.NameHistory],
                      l.p, l.err, l.net))
    ELSE ReturnNameHistory(prof, NilProfile, NoErr, <<>>)

\* LoadProperties leaving the name as it was.
LoadPropertiesKeepingName(prof, force, out) ==
    IF NeedsLoad(prof.Properties.nil, force)
    THEN Let(LoadWithProperties(prof.ID, out), LAMBDA l :
             IF l.err # NoErr
             THEN ReturnProperties(prof, l.p, remapUnsetID(l.err, prof.ID), l.net)
             ELSE ReturnProperties([prof EXCEPT !.Properties = l.p.Properties],
                                   l.p, l.err, l.net))
    ELSE ReturnProperties(prof, NilProfile, NoErr, <<>>)

LoadProperties(prof, force, out) ==
    IF NeedsLoad(prof.Properties.nil, force)
    THEN Let(LoadWithProperties(prof.ID, out), LAMBDA l :
             IF l.err # NoErr
             THEN ReturnProperties(prof, l.p, remapUnsetID(l.err, prof.ID), l.net)
             ELSE ReturnProperties(
                      [prof EXCEPT !.Name = l.p.Name, !.Properties = l.p.Properties],
                      l.p, l.err, l.net))
    ELSE ReturnProperties(prof, NilProfile, NoErr, <<>>)

(***************************************************************************)
(* The inputs the calls are explored with.                                 *)
(***************************************************************************)
Usernames == {"", "Al", "Bo"}
PlayerIDs == {"", "id1"}
Times == {Time(0, 0), Time(1500, 500)}

\* client.Do fails: a transport error, a cancelled context, or a transport
\* (such as the test suite's) that reports a failed request itself.
Failures ==
    {Failure(Sentinel("testError")), Failure(Sentinel("context.Canceled")),
     Failure(FailedRequestError(204, "")),
     Failure(FailedRequestError(429, "TooManyRequestsException"))}

\* Responses with a status other than 200.
ErrorResponses ==
    {Garbage(204), Garbage(500),
     Response(429, JObj([error |-> JStr("TooManyRequestsException")])),
     Response(400, JObj([error |-> JNum(1)])),
     Response(404, JArr(<<>>))}

\* 200 responses of no expected shape.
OddResponses ==
    {Garbage(200), Response(200, JNull), Response(200, JStr("x")),
     Response(200, JObj(NoTextures))}

Flags == {Absent, JBool(TRUE), JBool(FALSE), JStr("yes")}

\* The documents of the by-name endpoints.
ProfileDocs ==
    {MkObj(f) : f \in [id : {Absent, JStr("id1"), JNum(1)},
                       name : {Absent, JStr("Al"), JStr("Bo"), JNull},
                       demo : Flags,
                       legacy : Flags]}

\* The elements of a name-history document.
HistoryElements ==
    {JObj([name |-> JStr("Al")]),
     JObj([name |-> JStr("Bo"), changedToAt |-> JNum(1500)]),
     JObj([name |-> JStr("Al"), changedToAt |-> JStr("then")]),
     JObj([changedToAt |-> JNum(-1)]),
     JNum(3)}

SeqsUpTo(S, n) == UNION {[1 .. k -> S] : k \in 0 .. n}

HistoryDocs == {JArr(a) : a \in SeqsUpTo(HistoryElements, MaxHistLen)}

Textures(enc) == JObj([name |-> JStr("textures"), value |-> JStr(enc)])

\* The values of the "properties" key.
PropertyLists ==
    {Absent, JStr("none"), JArr(<<>>), JArr(<<JNull>>),
     JArr(<<JObj([name |-> JStr("other"), value |-> JStr("!")])>>),
     JArr(<<JObj([name |-> JStr("textures")])>>),
     JArr(<<Textures("!")>>), JArr(<<Textures("eA==")>>), JArr(<<Textures("W10=")>>),
     JArr(<<Textures("bnVsbA==")>>), JArr(<<Textures("e30=")>>),
     JArr(<<Textures("eyJ0ZXh0dXJlcyI6eyJTS0lOIjp7InVybCI6InMucG5nIn19fQ==")>>),
     JArr(<<Textures("eyJ0ZXh0dXJlcyI6eyJTS0lOIjp7InVybCI6InMucG5nIiwibWV0YWRhdGEiOnsibW9kZWwiOiJzbGltIn19LCJDQVBFIjp7InVybCI6ImMucG5nIn19fQ==")>>),
     JArr(<<Textures("eyJ0ZXh0dXJlcyI6eyJTS0lOIjp7InVybCI6InMucG5nIiwibWV0YWRhdGEiOnsibW9kZWwiOiJ3aWRlIn19fX0=")>>),
     JArr(<<Textures("eyJ0ZXh0dXJlcyI6e30sInByb2ZpbGVJZCI6IjAwMDAwMDAwMDAwMDAwMDAwMDAwMDAwMDAwMDAwMDAxIn0=")>>),
     JArr(<<Textures("eyJ0ZXh0dXJlcyI6eyJDQVBFIjp7InVybCI6ImMucG5nIn19LCJwcm9maWxlSWQiOiIwMDAwMDAwMDAwMDAwMDAwMDAwMDAwMDAwMDAwMDAwMCJ9")>>),
     JArr(<<Textures("eyJ0ZXh0dXJlcyI6e30sInByb2ZpbGVJZCI6IjAwMDAwMDAifQ==")>>),
     JArr(<<Textures("eyJ0ZXh0dXJlcyI6e30sInByb2ZpbGVJZCI6IjAwMDAwMDBnMDAwMDAwMDAwMDAwMDAwMDAwMDAwMDAwIn0=")>>),
     JArr(<<Textures("eyJ0ZXh0dXJlcyI6eyJTS0lOIjp7InVybCI6N319fQ==")>>),
     JArr(<<Textures("eyJ0ZXh0dXJlcyI6eyJTS0lOIjp7InVybCI6InMucG5nIn19fQ=="),
            Textures("eyJ0ZXh0dXJlcyI6eyJDQVBFIjp7InVybCI6ImMucG5nIn19LCJwcm9maWxlSWQiOiIwMDAwMDAwMDAwMDAwMDAwMDAwMDAwMDAwMDAwMDAwMCJ9")>>)}

\* The documents of the properties endpoint.
PropertiesDocs ==
    {MkObj(f) : f \in [id : {JStr("id1"), JNum(1)},
                       name : {Absent, JStr("Al"), JStr("Bo")},
                       demo : {Absent, JBool(TRUE), JStr("yes")},
                       legacy : {Absent, JBool(TRUE)},
                       properties : PropertyLists]}

\* The elements of a LoadMany document.
ManyElements ==
    {JObj([id |-> JStr("id1"), name |-> JStr("Al")]),
     JObj([id |-> JStr("id2"), name |-> JStr("Bo"), legacy |-> JBool(TRUE)]),
     JObj([id |-> JStr("id3"), name |-> JStr("Cy"), demo |-> JBool(TRUE)]),
     JObj([id |-> JStr("id1")]),
     JStr("Al")}

ManyDocs == {JArr(a) : a \in SeqsUpTo(ManyElements, MaxNames)}

Outcomes(docs) == Failures \cup ErrorResponses \cup OddResponses \cup {Response(200, j) : j \in docs}

\* The username lists given to LoadMany: short lists, and lists at and
\* beyond the size limit.
NameLists ==
    SeqsUpTo(Usernames, MaxNames)
        \cup {[i \in 1 .. n |-> "Al"] : n \in {LoadManyMaxSize, LoadManyMaxSize + 1}}
        \cup {[i \in 1 .. (LoadManyMaxSize + 1) |-> IF i = 1 THEN "Al" ELSE ""],
              [i \in 1 .. (LoadManyMaxSize + 1) |-> ""]}

(***************************************************************************)
(* The package-level load operations.  They keep no state between calls,   *)
(* so one call is explored per behaviour: in is the call to make (the      *)
(* operation, its arguments and what the transport will do), ret records   *)
(* the call made and everything it returned.                               *)
(***************************************************************************)
NoInput ==
    [op |-> "none", arg |-> "", t |-> ZeroTime, names |-> <<>>, out |-> Garbage(0)]
Input(op, arg, t, names, out) == [op |-> op, arg |-> arg, t |-> t, names |-> names, out |-> out]

LoadInputs ==
    {Input("Load", u, ZeroTime, <<>>, out) : u \in Usernames, out \in Outcomes(ProfileDocs)}
        \cup {Input("LoadAtTime", x[1], x[2], <<>>, out) :
                x \in Usernames \X Times, out \in Outcomes(ProfileDocs)}
        \cup {Input("LoadByID", id, ZeroTime, <<>>, out) :
                id \in PlayerIDs, out \in Outcomes(HistoryDocs)}
        \cup {Input("LoadWithNameHistory", id, ZeroTime, <<>>, out) :
                id \in PlayerIDs, out \in Outcomes(HistoryDocs)}
        \cup {Input("LoadWithProperties", id, ZeroTime, <<>>, out) :
                id \in PlayerIDs, out \in Outcomes(PropertiesDocs)}
        \cup {Input("LoadMany", "", ZeroTime, names, out) :
                names \in NameLists, out \in Outcomes(ManyDocs)}

NoCall ==
    [op |-> "none", arg |-> "", t |-> ZeroTime, force |-> FALSE, names |-> <<>>, panic |-> FALSE,
     p |-> NilProfile, hist |-> NilHist, props |-> NilProps, ps |-> NilSlice, err |-> NoErr]
\* The record of a call that returned a profile and an error.
Called(op, arg, t, r) ==
    [NoCall EXCEPT !.op = op, !.arg = arg, !.t = t, !.p = r.p, !.err = r.err]

Pending(op) == in.op = op /\ ret.op = "none"

CallLoad ==
    /\ Pending("Load")
    /\ \E r \in {Load(in.arg, in.out)} :
          ret' = Called("Load", in.arg, in.t, r) /\ netLog' = r.net
    /\ UNCHANGED <<p, in, cache, calls>>

CallLoadAtTime ==
    /\ Pending("LoadAtTime")
    /\ \E r \in {LoadAtTime(in.arg, in.t, in.out)} :
          ret' = Called("LoadAtTime", in.arg, in.t, r) /\ netLog' = r.net
    /\ UNCHANGED <<p, in, cache, calls>>

CallLoadByID ==
    /\ Pending("LoadByID")
    /\ \E r \in {LoadByID(in.arg, in.out)} :
          ret' = Called("LoadByID", in.arg, in.t, r) /\ netLog' = r.net
    /\ UNCHANGED <<p, in, cache, calls>>

CallLoadWithNameHistory ==
    /\ Pending("LoadWithNameHistory")
    /\ \E r \in {LoadWithNameHistory(in.arg, in.out)} :
          ret' = Called("LoadWithNameHistory", in.arg, in.t, r) /\ netLog' = r.net
    /\ UNCHANGED <<p, in, cache, calls>>

CallLoadWithProperties ==
    /\ Pending("LoadWithProperties")
    /\ \E r \in {LoadWithProperties(in.arg, in.out)} :
          ret' = Called("LoadWithProperties", in.arg, in.t, r) /\ netLog' = r.net
    /\ UNCHANGED <<p, in, cache, calls>>

CallLoadMany ==
    /\ Pending("LoadMany")
    /\ \E r \in {LoadMany(in.names, in.out)} :
          /\ ret' = [NoCall EXCEPT !.op = "LoadMany", !.names = in.names,
                                   !.ps = r.ps, !.err = r.err]
          /\ netLog' = r.net
    /\ UNCHANGED <<p, in, cache, calls>>

InitLoad ==
    /\ p = NilProfile
    /\ in \in LoadInputs
    /\ ret = NoCall
    /\ netLog = <<>>
    /\ cache = NoCache
    /\ calls = <<>>

NextLoad ==
    \/ CallLoad
    \/ CallLoadAtTime
    \/ CallLoadByID
    \/ CallLoadWithNameHistory
    \/ CallLoadWithProperties
    \/ CallLoadMany

SpecLoad == InitLoad /\ [][NextLoad]_vars

(***************************************************************************)
(* The parsers of part_005 applied to decoded JSON, as the tests of        *)
(* examples_test.go apply them: one call per behaviour.  in is the call to *)
(* make: the function, the struct it is to fill (the target) and the       *)
(* decoded value j it is given; p is the Profile fillProfile fills; ret    *)
(* records what the call returned.                                         *)
(***************************************************************************)
MaxArrLen == 3       \* longest array given to buildHistory
MaxProps == 2        \* longest array given to buildProperties

ParserInput(op, target, j) == [op |-> op, target |-> target, j |-> j]

Parsed(op, panic, ok, name, hist, props, err) ==
    [op |-> op, panic |-> panic, ok |-> ok, name |-> name, hist |-> hist, props |-> props,
     err |-> err]

\* The Profiles fillProfile is given: &Profile{}, a Profile with a loaded
\* history, and one with a loaded, empty history.
Targets ==
    {MkProfile("", "", NilHist, NilProps),
     MkProfile("id0", "Old", Hist(<<PastName("Older", Time(5, 0))>>), NilProps),
     MkProfile("id0", "Old", emptyHist, Props("s.png", "", Steve))}

\* The elements of the arrays given to buildHistory.
NameElements ==
    {MkObj([name |-> JStr(n), changedToAt |-> t]) :
        n \in {"A", "B", "C"}, t \in {Absent, JNum(1500), JNum(2750)}}
        \cup {JObj([name |-> JStr("A"), changedToAt |-> JStr("then")]),
              JObj([changedToAt |-> JNum(1500)]),
              JNum(3)}

\* The Properties populateTextures is given: &Properties{}, and one that
\* is set.
PropertySets == {Props("", "", Steve), Props("old.png", "oldc.png", Alex)}

\* The encoded values given to populateTextures.
EncodedTextures ==
    {"!", "eA==", "W10=", "bnVsbA==", "e30=",
     "eyJ0ZXh0dXJlcyI6eyJTS0lOIjp7InVybCI6InMucG5nIn19fQ==",
     "eyJ0ZXh0dXJlcyI6eyJTS0lOIjp7InVybCI6InMucG5nIiwibWV0YWRhdGEiOnsibW9kZWwiOiJzbGltIn19LCJDQVBFIjp7InVybCI6ImMucG5nIn19fQ==",
     "eyJ0ZXh0dXJlcyI6eyJTS0lOIjp7InVybCI6InMucG5nIiwibWV0YWRhdGEiOnsibW9kZWwiOiJ3aWRlIn19fX0=",
     "eyJ0ZXh0dXJlcyI6e30sInByb2ZpbGVJZCI6IjAwMDAwMDAwMDAwMDAwMDAwMDAwMDAwMDAwMDAwMDAxIn0=",
     "eyJ0ZXh0dXJlcyI6eyJDQVBFIjp7InVybCI6ImMucG5nIn19LCJwcm9maWxlSWQiOiIwMDAwMDAwMDAwMDAwMDAwMDAwMDAwMDAwMDAwMDAwMCJ9",
     "eyJ0ZXh0dXJlcyI6e30sInByb2ZpbGVJZCI6IjAwMDAwMDAifQ==",
     "eyJ0ZXh0dXJlcyI6e30sInByb2ZpbGVJZCI6IjAwMDAwMDBnMDAwMDAwMDAwMDAwMDAwMDAwMDAwMDAwIn0=",
     "eyJ0ZXh0dXJlcyI6eyJTS0lOIjp7InVybCI6N319fQ=="}

\* The elements of the arrays given to buildProperties.
PropertyElements ==
    {Textures(enc) : enc \in EncodedTextures}
        \cup {JObj([name |-> JStr("other"), value |-> JStr("!")]),
              JObj([name |-> JStr("signature"), value |-> JStr("eA==")])}

ParserInputs ==
    {ParserInput("fillProfile", t, j) : t \in Targets, j \in ProfileDocs}
        \cup {ParserInput("buildHistory", NilProfile, JArr(a)) :
                a \in SeqsUpTo(NameElements, MaxArrLen)}
        \cup {ParserInput("populateTextures", ps, JStr(enc)) :
                ps \in PropertySets, enc \in EncodedTextures}
        \cup {ParserInput("buildProperties", NilProfile, JArr(a)) :
                a \in SeqsUpTo(PropertyElements, MaxProps)}

NotParsed == Parsed("none", FALSE, FALSE, "", NilHist, NilProps, NoErr)

\* notDemo := fillProfile(&profile, m)
CallFillProfile ==
    /\ Pending("fillProfile")
    /\ \E r \in {fillProfile(p, in.j.m)} :
         /\ p' = r.p
         /\ ret' = [NotParsed EXCEPT !.op = "fillProfile", !.panic = r.panic, !.ok = r.ok]
    /\ UNCHANGED <<in, netLog, cache, calls>>

\* name, hist := buildHistory(arr)
CallBuildHistory ==
    /\ Pending("buildHistory")
    /\ \E r \in {buildHistory(in.j.a)} :
         ret' = [NotParsed EXCEPT !.op = "buildHistory", !.panic = r.panic, !.name = r.name,
                                  !.hist = r.hist]
    /\ UNCHANGED <<p, in, netLog, cache, calls>>

\* err := populateTextures(enc, &props)
CallPopulateTextures ==
    /\ Pending("populateTextures")
    /\ \E r \in {populateTextures(in.j.s, in.target)} :
         ret' = [NotParsed EXCEPT !.op = "populateTextures", !.panic = r.panic,
                                  !.props = r.props, !.err = r.err]
    /\ UNCHANGED <<p, in, netLog, cache, calls>>

\* ps, err := buildProperties(props)
CallBuildProperties ==
    /\ Pending("buildProperties")
    /\ \E r \in {buildProperties(in.j.a)} :
         ret' = [NotParsed EXCEPT !.op = "buildProperties", !.panic = r.panic,
                                  !.props = r.ps, !.err = r.err]
    /\ UNCHANGED <<p, in, netLog, cache, calls>>

InitParsers ==
    /\ in \in ParserInputs
    /\ p = in.target
    /\ ret = NotParsed
    /\ netLog = <<>>
    /\ cache = NoCache
    /\ calls = <<>>

NextParsers ==
    \/ CallFillProfile
    \/ CallBuildHistory
    \/ CallPopulateTextures
    \/ CallBuildProperties

SpecParsers == InitParsers /\ [][NextParsers]_vars

(***************************************************************************)
(* defaultModel of part_005 applied to player IDs, as TestDefaultModel     *)
(* applies it: one call per behaviour, in.j being the ID (a sequence of    *)
(* characters) and ret the model returned, or the panic.                   *)
(***************************************************************************)
HexDigits == {"0", "1", "2", "3", "4", "5", "6", "7", "8", "9", "a", "b", "c", "d", "e", "f"}

\* Characters that are no lowercase hexadecimal digits.
OtherCharacters == {"g", "F", "-"}

Nergalic == <<"0", "8", "7", "c", "c", "1", "5", "3", "c", "3", "4", "3", "4", "f", "f", "7", "a", "c", "4", "9", "7", "d", "e", "1", "5", "6", "9", "a", "f", "f", "a", "1">>
Feathertail == <<"3", "f", "e", "1", "3", "6", "c", "0", "c", "d", "4", "3", "4", "f", "7", "7", "8", "3", "f", "c", "9", "4", "b", "9", "b", "8", "6", "e", "e", "d", "6", "d">>

\* The ID uuid with the characters a, b, c, d as uuid[7], uuid[15],
\* uuid[23] and uuid[31].
WithDigits(uuid, a, b, c, d) == [uuid EXCEPT ![8] = a, ![16] = b, ![24] = c, ![32] = d]

\* IDs of 32 lowercase hexadecimal digits.
ValidIDs ==
    {WithDigits(Zeros(32), a, b, c, d) : a, b, c, d \in HexDigits}
        \cup {Nergalic, Feathertail}

\* IDs with one character that is no lowercase hexadecimal digit, and IDs
\* that are too short.
InvalidIDs ==
    {[uuid EXCEPT ![i] = c] : uuid \in {Zeros(32), Nergalic, Feathertail},
                             i \in {1, 8, 9, 16, 24, 32}, c \in OtherCharacters}
        \cup {Zeros(7), Zeros(31)}

Derived(op, panic, model) == [op |-> op, panic |-> panic, model |-> model]

\* model := defaultModel(uuid)
CallDefaultModel ==
    /\ Pending("defaultModel")
    /\ \E r \in {defaultModel(in.j)} :
         ret' = Derived("defaultModel", r.panic, r.v)
    /\ UNCHANGED <<p, in, netLog, cache, calls>>

InitDefaultModel ==
    /\ in \in {ParserInput("defaultModel", NilProps, uuid) : uuid \in ValidIDs \cup InvalidIDs}
    /\ p = NilProfile
    /\ ret = Derived("none", FALSE, Steve)
    /\ netLog = <<>>
    /\ cache = NoCache
    /\ calls = <<>>

NextDefaultModel == CallDefaultModel

SpecDefaultModel == InitDefaultModel /\ [][NextDefaultModel]_vars

(***************************************************************************)
(* The methods of one Profile, called one after another.  A Profile is a   *)
(* plain struct, so a caller may hold one with any combination of fields.  *)
(***************************************************************************)
\* The documents the properties endpoint answers a reload with.
ReloadDocs ==
    {d \in PropertiesDocs :
        /\ Is(d.m, "id", "string")
        /\ Has(d.m, "name")
        /\ ~Has(d.m, "legacy")
        /\ ~Is(d.m, "demo", "string")
        /\ \/ ~Has(d.m, "properties")
           \/ /\ d.m["properties"].t = "array"
              /\ \A i \in 1 .. Len(d.m["properties"].a) :
                    /\ d.m["properties"].a[i].t = "object"
                    /\ Is(d.m["properties"].a[i].m, "value", "string")
                    /\ decodeTextures(d.m["properties"].a[i].m["value"].s).json}

InitProfiles ==
    {MkProfile(id, name, hist, props) :
        id \in PlayerIDs, name \in {"", "Al"},
        hist \in {NilHist, emptyHist, Hist(<<PastName("Bo", Time(1, 500000000))>>)},
        props \in {NilProps, Props("old.png", "", Steve)}}

CallLoadNameHistory ==
    \E force \in BOOLEAN, out \in Outcomes(HistoryDocs) :
        \E r \in {LoadNameHistory(p, force, out)} :
            /\ p' = r.prof
            /\ ret' = [NoCall EXCEPT !.op = "LoadNameHistory", !.arg = p.ID, !.force = force,
                                     !.p = r.loaded, !.hist = r.hist, !.err = r.err]
            /\ netLog' = r.net
            /\ UNCHANGED <<in, cache, calls>>

CallLoadProperties ==
    \E force \in BOOLEAN, out \in Outcomes(ReloadDocs) :
        \E r \in {LoadProperties(p, force, out)} :
            /\ p' = r.prof
            /\ ret' = [NoCall EXCEPT !.op = "LoadProperties", !.arg = p.ID, !.force = force,
                                     !.p = r.loaded, !.props = r.props, !.err = r.err]
            /\ netLog' = r.net
            /\ UNCHANGED <<in, cache, calls>>

InitProfile ==
    /\ p \in InitProfiles
    /\ in = NoInput
    /\ ret = NoCall
    /\ netLog = <<>>
    /\ cache = NoCache
    /\ calls = <<>>

NextProfile ==
    \/ CallLoadNameHistory
    \/ CallLoadProperties

SpecProfile == InitProfile /\ [][NextProfile]_vars

(***************************************************************************)
(* The revision without contexts (load.go lines 379-679, history.go,       *)
(* errors.go) that the Store wraps.  Its Profile has the private fields    *)
(* id, name, history, properties and cache; its loaders recover from       *)
(* nothing, so a response of an unexpected shape panics the caller.        *)
(***************************************************************************)
\* A *Properties of this revision.
properties(skinURL, capeURL, model) ==
    [nil |-> FALSE, skinURL |-> skinURL, capeURL |-> capeURL, model |-> model]
nilProperties == [properties("", "", Steve) EXCEPT !.nil = TRUE]

\* A *Profile of this revision; cache tells whether the Store's cache is
\* attached.
profile(id, name, history, props, c) ==
    [nil |-> FALSE, id |-> id, name |-> name, history |-> history, properties |-> props,
     cache |-> c]
nilProfile == [profile("", "", NilHist, nilProperties, FALSE) EXCEPT !.nil = TRUE]

ErrNoSuchUser(name) == [Err |-> "ErrNoSuchUser", Name |-> name]
ErrNoSuchID(id) == [Err |-> "ErrNoSuchID", ID |-> id]
errTooManyRequests == Sentinel("errTooManyRequests")

\* What a call of this revision did: it panicked, or returned p and err;
\* net holds the requests it sent.
Outcome(panic, prof, err, net) == [panic |-> panic, p |-> prof, err |-> err, net |-> net]

\* getJsonError: the error a decoded document holds.
getJsonError(json) ==
    IF json.t = "object" /\ Has(json.m, "error")
    THEN IF json.m["error"].t # "string" THEN [panic |-> TRUE, err |-> NoErr]
         ELSE IF json.m["error"].s = "TooManyRequestsException"
         THEN [panic |-> FALSE, err |-> errTooManyRequests]
         ELSE IF ~Is(json.m, "errorMessage", "string") THEN [panic |-> TRUE, err |-> NoErr]
         ELSE [panic |-> FALSE,
               err |-> MkErr("", NoURL, "Mojang API error", 0, json.m["error"].s)]
    ELSE [panic |-> FALSE, err |-> NoErr]

\* parseJson; hasNc tells whether ncErr is non-nil.
parseJson(resp, hasNc, ncErr) ==
    IF resp.status = 204 /\ hasNc THEN [panic |-> FALSE, j |-> JNull, err |-> ncErr]
    ELSE IF ~resp.parseOk
    THEN [panic |-> FALSE, j |-> JNull, err |-> Sentinel("json.SyntaxError")]
    ELSE Let(getJsonError(resp.j), LAMBDA e :
             IF e.panic \/ e.err # NoErr THEN [panic |-> e.panic, j |-> JNull, err |-> e.err]
             ELSE [panic |-> FALSE, j |-> resp.j, err |-> NoErr])

\* getJson: http.Get fails with a *url.Error, or the response is parsed.
getJson(url, ncErr, out) ==
    IF out.doErr # NoErr
    THEN [panic |-> FALSE, j |-> JNull, err |-> URLError("Get", url, out.doErr)]
    ELSE parseJson(out, TRUE, ncErr)

\* buildProfile of this revision.
buildProfileNoCtx(j, demoErr) ==
    IF j.t # "object" THEN Outcome(TRUE, nilProfile, NoErr, <<>>)
    ELSE IF Has(j.m, "demo") /\ j.m["demo"].t # "bool" THEN Outcome(TRUE, nilProfile, NoErr, <<>>)
    ELSE IF Has(j.m, "demo") /\ j.m["demo"].b THEN Outcome(FALSE, nilProfile, demoErr, <<>>)
    ELSE IF ~Is(j.m, "id", "string") \/ ~Is(j.m, "name", "string")
    THEN Outcome(TRUE, nilProfile, NoErr, <<>>)
    ELSE IF Has(j.m, "legacy") /\ j.m["legacy"].t # "bool"
    THEN Outcome(TRUE, nilProfile, NoErr, <<>>)
    ELSE Outcome(FALSE,
                 profile(j.m["id"].s, j.m["name"].s,
                         IF Has(j.m, "legacy") /\ j.m["legacy"].b THEN emptyHist ELSE NilHist,
                         nilProperties, FALSE),
                 NoErr, <<>>)

\* load: the common implementation of Load and LoadAtTime.
load(url, user, out) ==
    IF user = "" THEN Outcome(FALSE, nilProfile, ErrNoSuchUser(user), <<>>)
    ELSE Let(getJson(url, ErrNoSuchUser(user), out), LAMBDA g :
             IF g.panic THEN Outcome(TRUE, nilProfile, NoErr, Get(url))
             ELSE IF g.err # NoErr THEN Outcome(FALSE, nilProfile, g.err, Get(url))
             ELSE Let(buildProfileNoCtx(g.j, ErrNoSuchUser(user)), LAMBDA b :
                      Outcome(b.panic, b.p, b.err, Get(url))))

LoadNoCtx(username, out) == load(loadURL(username), username, out)

LoadAtTimeNoCtx(username, tm, out) == load(loadAtTimeURL(username, tm.sec), username, out)

pastName(name, until) == [name |-> name, until |-> until]

\* The loop of createHistory at index i (from 0), hist being the slice as
\* written so far.
RECURSIVE createHistoryLoop(_, _, _)
createHistoryLoop(a, i, hist) ==
    IF i >= Len(a) THEN [panic |-> FALSE, name |-> "", hist |-> Hist(hist)]
    ELSE IF a[i + 1].t # "object" THEN HistPanicked
    ELSE Let(a[i + 1].m, LAMBDA m :
         IF Has(m, "changedToAt") /\ i > 0 /\ m["changedToAt"].t # "number" THEN HistPanicked
         ELSE IF ~Is(m, "name", "string") THEN HistPanicked
         ELSE Let(IF Has(m, "changedToAt") /\ i > 0
                  THEN [hist EXCEPT ![i].until = Time(Quot(m["changedToAt"].n, 1000), 0)]
                  ELSE hist, LAMBDA stamped :
                  IF i = Len(hist)
                  THEN [panic |-> FALSE, name |-> m["name"].s, hist |-> Hist(stamped)]
                  ELSE createHistoryLoop(a, i + 1, [stamped EXCEPT ![i + 1].name = m["name"].s])))

\* createHistory: make([]PastName, len(a)-1) panics for an empty array.
createHistory(a) ==
    IF Len(a) = 0 THEN HistPanicked
    ELSE createHistoryLoop(a, 0, [k \in 1 .. (Len(a) - 1) |-> pastName("", ZeroTime)])

LoadWithNameHistoryNoCtx(id, out) ==
    IF id = "" THEN Outcome(FALSE, nilProfile, ErrNoSuchID(id), <<>>)
    ELSE Let(getJson(loadWithNameHistoryURL(id), ErrNoSuchID(id), out), LAMBDA g :
             IF g.panic THEN Outcome(TRUE, nilProfile, NoErr, Get(loadWithNameHistoryURL(id)))
             ELSE IF g.err # NoErr
             THEN Outcome(FALSE, nilProfile, g.err, Get(loadWithNameHistoryURL(id)))
             ELSE IF g.j.t # "array"
             THEN Outcome(TRUE, nilProfile, NoErr, Get(loadWithNameHistoryURL(id)))
             ELSE Let(createHistory(g.j.a), LAMBDA h :
                      IF h.panic
                      THEN Outcome(TRUE, nilProfile, NoErr, Get(loadWithNameHistoryURL(id)))
                      ELSE Outcome(FALSE, profile(id, h.name, h.hist, nilProperties, FALSE), NoErr,
                                   Get(loadWithNameHistoryURL(id)))))

LoadByIDNoCtx(id, out) == LoadWithNameHistoryNoCtx(id, out)

\* base64.StdEncoding.DecodeString followed by json.Decode into an
\* interface{}: a JSON array or null decodes, and is no map.
decodeProperty(enc) ==
    Let(decodeTextures(enc), LAMBDA d :
        [b64 |-> d.b64, json |-> d.json \/ enc = "W10=",
         isMap |-> d.json /\ enc # "bnVsbA==", m |-> d.m])

\* populateTextures of this revision: the model a skin's metadata gives pp.
skinModel(skin, pp) ==
    IF ~Has(skin, "metadata") THEN PropsDone(pp)
    ELSE IF skin["metadata"].t # "object" THEN PropsPanicked(pp)
    ELSE IF ~Has(skin["metadata"].m, "model") THEN PropsDone(pp)
    ELSE IF skin["metadata"].m["model"].t # "string" THEN PropsPanicked(pp)
    ELSE IF skin["metadata"].m["model"].s = "slim" THEN PropsDone([pp EXCEPT !.model = Alex])
    ELSE PropsDone(pp)

\* populateTextures of this revision: the skin URL and the model.
skinTexture(ts, pp) ==
    IF ~Has(ts, "SKIN") THEN PropsDone(pp)
    ELSE IF ts["SKIN"].t # "object" \/ ~Is(ts["SKIN"].m, "url", "string") THEN PropsPanicked(pp)
    ELSE skinModel(ts["SKIN"].m, [pp EXCEPT !.skinURL = ts["SKIN"].m["url"].s])

\* populateTextures of this revision: the cape URL, r being what the skin
\* has made of pp.
capeTexture(ts, r) ==
    IF r.panic \/ ~Has(ts, "CAPE") THEN r
    ELSE IF ts["CAPE"].t # "object" \/ ~Is(ts["CAPE"].m, "url", "string")
    THEN PropsPanicked(r.props)
    ELSE PropsDone([r.props EXCEPT !.capeURL = ts["CAPE"].m["url"].s])

populateTexturesNoCtx(enc, pp) ==
    Let(decodeProperty(enc), LAMBDA d :
        IF ~d.b64 THEN PropsFailed(Sentinel("base64.CorruptInputError"), pp)
        ELSE IF ~d.json THEN PropsFailed(Sentinel("json.SyntaxError"), pp)
        ELSE IF ~d.isMap \/ ~Is(d.m, "textures", "object") THEN PropsPanicked(pp)
        ELSE capeTexture(d.m["textures"].m, skinTexture(d.m["textures"].m, pp)))

\* propertyPopulators: the properties that have a parser.
propertyPopulators == {"textures"}

\* The loop of buildProperties of this revision at index i (from 1).
RECURSIVE buildPropertiesLoopNoCtx(_, _, _)
buildPropertiesLoopNoCtx(ps, i, pp) ==
    IF i > Len(ps) THEN [panic |-> FALSE, ps |-> pp, err |-> NoErr]
    ELSE IF ps[i].t # "object" THEN [panic |-> TRUE, ps |-> nilProperties, err |-> NoErr]
    ELSE IF ~Is(ps[i].m, "name", "string") \/ ~Is(ps[i].m, "value", "string")
    THEN [panic |-> TRUE, ps |-> nilProperties, err |-> NoErr]
    ELSE IF ps[i].m["name"].s \notin propertyPopulators
    THEN [panic |-> TRUE, ps |-> nilProperties, err |-> NoErr]
    ELSE Let(populateTexturesNoCtx(ps[i].m["value"].s, pp), LAMBDA r :
             IF r.panic THEN [panic |-> TRUE, ps |-> nilProperties, err |-> NoErr]
             ELSE IF r.err # NoErr THEN [panic |-> FALSE, ps |-> nilProperties, err |-> r.err]
             ELSE buildPropertiesLoopNoCtx(ps, i + 1, r.props))

buildPropertiesNoCtx(ps) == buildPropertiesLoopNoCtx(ps, 1, properties("", "", Steve))

\* LoadWithProperties once the document j has arrived.
loadProperties(j, id, url) ==
    Let(buildProfileNoCtx(j, ErrNoSuchID(id)), LAMBDA b :
        IF b.panic \/ b.err # NoErr THEN Outcome(b.panic, nilProfile, b.err, Get(url))
        ELSE IF ~Is(j.m, "properties", "array") THEN Outcome(TRUE, nilProfile, NoErr, Get(url))
        ELSE Let(buildPropertiesNoCtx(j.m["properties"].a), LAMBDA r :
                 IF r.panic \/ r.err # NoErr THEN Outcome(r.panic, nilProfile, r.err, Get(url))
                 ELSE Outcome(FALSE, [b.p EXCEPT !.properties = r.ps], NoErr, Get(url))))

LoadWithPropertiesNoCtx(id, out) ==
    IF id = "" THEN Outcome(FALSE, nilProfile, ErrNoSuchID(id), <<>>)
    ELSE Let(getJson(loadWithPropertiesURL(id), ErrNoSuchID(id), out), LAMBDA g :
             IF g.panic THEN Outcome(TRUE, nilProfile, NoErr, Get(loadWithPropertiesURL(id)))
             ELSE IF g.err # NoErr
             THEN Outcome(FALSE, nilProfile, g.err, Get(loadWithPropertiesURL(id)))
             ELSE loadProperties(g.j, id, loadWithPropertiesURL(id)))

(***************************************************************************)
(* The Cache of a Store: the loggingTestCache of cache_test.go, which      *)
(* keeps what it is given and logs every read.  Each method takes the      *)
(* cache c and yields the cache after the call.                            *)
(***************************************************************************)
CacheEntry(id, name, history, props) ==
    [ID |-> id, Name |-> name, NameHistory |-> history, Properties |-> props]
cacheLogEntry(name, id, tm) == [Name |-> name, ID |-> id, Time |-> tm]

\* strings.ToLower, on the names of the model.
ToLower(s) ==
    CASE s = "Al" -> "al"
      [] s = "AL" -> "al"
      [] s = "Bo" -> "bo"
      [] OTHER -> s

norm(s) == ToLower(s)

CacheNameAtTime(c, name, tm, id) ==
    [c EXCEPT !.IDsByNameAndTime =
        Put(@, norm(name),
            Put(IF norm(name) \in DOMAIN @ THEN @[norm(name)] ELSE EmptyMap, tm, id))]

Cache(c, e) ==
    [c EXCEPT !.EntriesByID = Put(@, e.ID, e), !.IDsByName = Put(@, norm(e.Name), e.ID)]

\* What a lookup returns, c being the cache with the read logged.
Found(c, entry, ok) == [cache |-> c, entry |-> entry, ok |-> ok]
\* entry, ok = ts.EntriesByID[id]
Lookup(c, id) ==
    IF id \in DOMAIN c.EntriesByID THEN Found(c, c.EntriesByID[id], TRUE)
    ELSE Found(c, CacheEntry("", "", NilHist, nilProperties), FALSE)
\* ts.CacheReads = append(ts.CacheReads, e)
Logged(c, e) == [c EXCEPT !.CacheReads = Append(@, e)]

GetName(c, name) ==
    IF norm(name) \notin DOMAIN c.IDsByName
    THEN Found(Logged(c, cacheLogEntry(name, "", ZeroTime)),
               CacheEntry("", "", NilHist, nilProperties), FALSE)
    ELSE Lookup(Logged(c, cacheLogEntry(name, "", ZeroTime)), c.IDsByName[norm(name)])

GetNameAtTime(c, name, tm) ==
    IF norm(name) \notin DOMAIN c.IDsByNameAndTime
    THEN Found(Logged(c, cacheLogEntry(name, "", tm)),
               CacheEntry("", "", NilHist, nilProperties), FALSE)
    ELSE IF tm \notin DOMAIN c.IDsByNameAndTime[norm(name)]
    THEN Found(Logged(c, cacheLogEntry(name, "", tm)),
               CacheEntry("", "", NilHist, nilProperties), FALSE)
    ELSE Lookup(Logged(c, cacheLogEntry(name, "", tm)), c.IDsByNameAndTime[norm(name)][tm])

GetID(c, id) == Lookup(Logged(c, cacheLogEntry("", id, ZeroTime)), id)

(***************************************************************************)
(* The Store (unnamed/part_005).  Each operation takes the Store's cache c *)
(* and what the service will answer, and yields the outcome of the call    *)
(* together with the cache after it.                                       *)
(***************************************************************************)
cToP(e, c) == profile(e.ID, e.Name, e.NameHistory, e.Properties, ~c.nil)

pToC(prof) == CacheEntry(prof.id, prof.name, prof.history, prof.properties)

StoreOutcome(o, c) == [panic |-> o.panic, p |-> o.p, err |-> o.err, net |-> o.net, cache |-> c]

\* "Load and cache" that also remembers, as an entry without a name, the
\* ID or username nothing was found for.
loadAndCacheAlways(l, c) ==
    IF l.panic THEN StoreOutcome(l, c)
    ELSE IF l.err # NoErr THEN StoreOutcome(l, Cache(c, pToC(l.p)))
    ELSE StoreOutcome([l EXCEPT !.p.cache = TRUE], Cache(c, pToC([l.p EXCEPT !.cache = TRUE])))

\* What the entry e would be with the fields it lacks taken from the entry
\* the cache c holds for its ID.
mergedEntry(e, c) ==
    IF e.ID \notin DOMAIN c.EntriesByID THEN e
    ELSE CacheEntry(e.ID, e.Name,
                    IF e.NameHistory.nil THEN c.EntriesByID[e.ID].NameHistory ELSE e.NameHistory,
                    IF e.Properties.nil THEN c.EntriesByID[e.ID].Properties ELSE e.Properties)

\* "Load and cache" that merges the loaded profile into the cached entry.
loadAndCacheMerging(l, c) ==
    IF l.panic \/ l.err # NoErr THEN StoreOutcome(l, c)
    ELSE StoreOutcome([l EXCEPT !.p.cache = TRUE],
                      Cache(c, mergedEntry(pToC([l.p EXCEPT !.cache = TRUE]), c)))

\* "Load and cache": l is what the package's loader did, c the cache after
\* the lookup.
loadAndCache(l, c) ==
    IF l.panic \/ l.err # NoErr THEN StoreOutcome(l, c)
    ELSE StoreOutcome([l EXCEPT !.p.cache = TRUE], Cache(c, pToC([l.p EXCEPT !.cache = TRUE])))

\* "Profile is cached?": the hit g serves the call.
cached(g) == StoreOutcome(Outcome(FALSE, cToP(g.entry, g.cache), NoErr, <<>>), g.cache)

StoreLoad(c, username, out) ==
    IF c.nil THEN StoreOutcome(LoadNoCtx(username, out), c)
    ELSE Let(GetName(c, username), LAMBDA g :
             IF g.ok THEN cached(g)
             ELSE loadAndCache(LoadNoCtx(username, out), g.cache))

\* Store.LoadAtTime asking the cache for the current holder of the name.
StoreLoadAtTimeAskingCurrentName(c, username, tm, out) ==
    IF c.nil THEN StoreOutcome(LoadAtTimeNoCtx(username, tm, out), c)
    ELSE Let(GetName(c, username), LAMBDA g :
             IF g.ok THEN cached(g)
             ELSE Let(loadAndCache(LoadAtTimeNoCtx(username, tm, out), g.cache), LAMBDA r :
                      IF r.panic \/ r.err # NoErr THEN r
                      ELSE [r EXCEPT !.cache = CacheNameAtTime(@, username, tm, r.p.id)]))

StoreLoadAtTime(c, username, tm, out) ==
    IF c.nil THEN StoreOutcome(LoadAtTimeNoCtx(username, tm, out), c)
    ELSE Let(GetNameAtTime(c, username, tm), LAMBDA g :
             IF g.ok THEN cached(g)
             ELSE Let(loadAndCache(LoadAtTimeNoCtx(username, tm, out), g.cache), LAMBDA r :
                      IF r.panic \/ r.err # NoErr THEN r
                      ELSE [r EXCEPT !.cache = CacheNameAtTime(@, username, tm, r.p.id)]))

\* Store.LoadByID with the condition of Store.LoadWithNameHistory.
StoreLoadByIDWantingHistory(c, id, out) ==
    IF c.nil THEN StoreOutcome(LoadByIDNoCtx(id, out), c)
    ELSE Let(GetID(c, id), LAMBDA g :
             IF g.ok /\ ~g.entry.NameHistory.nil THEN cached(g)
             ELSE loadAndCache(LoadByIDNoCtx(id, out), g.cache))

StoreLoadByID(c, id, out) ==
    IF c.nil THEN StoreOutcome(LoadByIDNoCtx(id, out), c)
    ELSE Let(GetID(c, id), LAMBDA g :
             IF g.ok THEN cached(g)
             ELSE loadAndCache(LoadByIDNoCtx(id, out), g.cache))

StoreLoadWithNameHistory(c, id, out) ==
    IF c.nil THEN StoreOutcome(LoadWithNameHistoryNoCtx(id, out), c)
    ELSE Let(GetID(c, id), LAMBDA g :
             IF g.ok /\ ~g.entry.NameHistory.nil THEN cached(g)
             ELSE loadAndCache(LoadWithNameHistoryNoCtx(id, out), g.cache))

StoreLoadWithProperties(c, id, out) ==
    IF c.nil THEN StoreOutcome(LoadWithPropertiesNoCtx(id, out), c)
    ELSE Let(GetID(c, id), LAMBDA g :
             IF g.ok /\ ~g.entry.Properties.nil THEN cached(g)
             ELSE loadAndCache(LoadWithPropertiesNoCtx(id, out), g.cache))

(***************************************************************************)
(* A Store in use: its operations are called one after another on a Store  *)
(* made by NewStore, with or without a cache.  The service answers a       *)
(* lookup of a current username with the profile of that name (ignoring    *)
(* case), a lookup at a time with the profile that had the name then, and  *)
(* a lookup of an ID, in whichever spelling, with the profile's ID as the  *)
(* service spells it.  in records the call made and the service's answer,  *)
(* ret what the call returned.                                             *)
(***************************************************************************)
StoreUsernames == {"", "Al", "al"}
StoreIDs == {"", "id1", "id-1"}
StoreTimes == {Time(1500, 0)}

StoreFailures ==
    {Failure(Sentinel("testError")), Garbage(204),
     Response(429, JObj([error |-> JStr("TooManyRequestsException")]))}

\* The documents of the by-name endpoints for a profile named name.
NamedDocs(name) ==
    {JObj([id |-> JStr("id1"), name |-> JStr(name)]),
     JObj([id |-> JStr("id1"), name |-> JStr(name), legacy |-> JBool(TRUE)]),
     JObj([id |-> JStr("id1"), name |-> JStr(name), demo |-> JBool(TRUE)]),
     JObj([name |-> JStr(name)])}

StoreHistoryDocs ==
    {JArr(<<>>), JArr(<<JNum(3)>>), JArr(<<JObj([name |-> JStr("Al")])>>),
     JArr(<<JObj([name |-> JStr("Al")]),
            JObj([name |-> JStr("Bo"), changedToAt |-> JNum(1500)])>>)}

StorePropertiesDocs ==
    {MkObj(f) : f \in [id : {JStr("id1")},
                       name : {JStr("Al")},
                       properties : {Absent, JArr(<<>>), JArr(<<Textures("!")>>),
                                     JArr(<<Textures("eyJ0ZXh0dXJlcyI6eyJTS0lOIjp7InVybCI6InMucG5nIiwibWV0YWRhdGEiOnsibW9kZWwiOiJzbGltIn19LCJDQVBFIjp7InVybCI6ImMucG5nIn19fQ==")>>)}]}

\* What the service may answer to a current-name lookup, to a lookup at a
\* time, to a name-history lookup and to a properties lookup.
CurrentNameAnswers(username) ==
    StoreFailures
        \cup {Response(200, j) : j \in UNION {NamedDocs(n) : n \in {x \in {"Al", "Bo"} : norm(x) = norm(username)}}}
PastNameAnswers == StoreFailures \cup {Response(200, j) : j \in NamedDocs("Al") \cup NamedDocs("Bo")}
HistoryAnswers == StoreFailures \cup {Response(200, j) : j \in StoreHistoryDocs}
PropertiesAnswers == StoreFailures \cup {Response(200, j) : j \in StorePropertiesDocs}

\* The program runs until a call panics, and the client of a cache reads
\* and clears its log after every call (as the tests do).
Running == ~ret.panic /\ cache.CacheReads = <<>>

\* The step of a Store operation op that did r.
StoreCall(op, arg, tm, out, r) ==
    /\ cache' = r.cache
    /\ in' = Input(op, arg, tm, <<>>, out)
    /\ ret' = [NoCall EXCEPT !.op = op, !.arg = arg, !.t = tm, !.panic = r.panic,
                             !.p = r.p, !.err = r.err]
    /\ netLog' = r.net
    /\ UNCHANGED <<p, calls>>

CallStoreLoad ==
    /\ Running
    /\ \E username \in StoreUsernames :
         \E out \in CurrentNameAnswers(username) :
           \E r \in {StoreLoad(cache, username, out)} :
             StoreCall("Store.Load", username, ZeroTime, out, r)

CallStoreLoadAtTime ==
    /\ Running
    /\ \E username \in StoreUsernames, tm \in StoreTimes, out \in PastNameAnswers :
         \E r \in {StoreLoadAtTime(cache, username, tm, out)} :
           StoreCall("Store.LoadAtTime", username, tm, out, r)

CallStoreLoadByID ==
    /\ Running
    /\ \E id \in StoreIDs, out \in HistoryAnswers :
         \E r \in {StoreLoadByID(cache, id, out)} :
           StoreCall("Store.LoadByID", id, ZeroTime, out, r)

CallStoreLoadWithNameHistory ==
    /\ Running
    /\ \E id \in StoreIDs, out \in HistoryAnswers :
         \E r \in {StoreLoadWithNameHistory(cache, id, out)} :
           StoreCall("Store.LoadWithNameHistory", id, ZeroTime, out, r)

CallStoreLoadWithProperties ==
    /\ Running
    /\ \E id \in StoreIDs, out \in PropertiesAnswers :
         \E r \in {StoreLoadWithProperties(cache, id, out)} :
           StoreCall("Store.LoadWithProperties", id, ZeroTime, out, r)

\* c.CacheReads = nil, once the client has read the log.
ResetCacheReads ==
    /\ cache.CacheReads # <<>>
    /\ cache' = [cache EXCEPT !.CacheReads = <<>>]
    /\ UNCHANGED <<p, in, ret, netLog, calls>>

InitStore ==
    /\ p = NilProfile
    /\ in = NoInput
    /\ ret = NoCall
    /\ netLog = <<>>
    /\ cache \in {NoCache, newLoggingTestCache}
    /\ calls = <<>>

NextStore ==
    \/ CallStoreLoad
    \/ CallStoreLoadAtTime
    \/ CallStoreLoadByID
    \/ CallStoreLoadWithNameHistory
    \/ CallStoreLoadWithProperties
    \/ ResetCacheReads

SpecStore == InitStore /\ [][NextStore]_vars

(***************************************************************************)
(* The lazily loaded fields of a Profile of this revision (part_001        *)
(* 105-133, history.go 43-63), on a Profile a client got from a Store.     *)
(* Both methods hold p.mutex from entry to return, so a call is one step.  *)
(* p is the client's Profile; a call returns the profile as it leaves it,  *)
(* its local variable loaded, the value and error it returns, the requests *)
(* it sent and the cache as it leaves it.                                  *)
(***************************************************************************)
Lazy(panic, prof, loaded, hist, props, err, net, c) ==
    [panic |-> panic, prof |-> prof, loaded |-> loaded, hist |-> hist, props |-> props,
     err |-> err, net |-> net, cache |-> c]

\* The rest of LoadProperties, l being what the load did.
memoizeProperties(prof, l) ==
    IF l.panic \/ l.err # NoErr
    THEN Lazy(l.panic, prof, l.p, NilHist, nilProperties, l.err, l.net, l.cache)
    ELSE Lazy(FALSE, [prof EXCEPT !.properties = l.p.properties], l.p, NilHist,
              l.p.properties, NoErr, l.net, l.cache)

\* LoadProperties of part_001.
LoadPropertiesNoCtx(prof, c, out) ==
    IF prof.properties.nil
    THEN IF prof.cache
         THEN memoizeProperties(prof, StoreLoadWithProperties(c, prof.id, out))
         ELSE memoizeProperties(prof, StoreOutcome(LoadWithPropertiesNoCtx(prof.id, out), c))
    ELSE Lazy(FALSE, prof, nilProfile, NilHist, prof.properties, NoErr, <<>>, c)

\* LoadNameHistory of history.go; append(emptyHist, p.history...) is a slice
\* that is not nil.
LoadNameHistoryNoCtx(prof, c, out) ==
    IF prof.history.nil
    THEN Let(LoadWithNameHistoryNoCtx(prof.id, out), LAMBDA l :
             IF l.panic \/ l.err # NoErr
             THEN Lazy(l.panic, prof, l.p, NilHist, nilProperties, l.err, l.net, c)
             ELSE Lazy(FALSE, [prof EXCEPT !.history = l.p.history], l.p,
                       Hist(l.p.history.v), nilProperties, NoErr, l.net, c))
    ELSE Lazy(FALSE, prof, nilProfile, Hist(prof.history.v), nilProperties, NoErr, <<>>, c)

\* append(s, xs...) for slices of PastName.  A slice is nil or not, holds
\* the elements v, and array names the memory its elements live in; cap is
\* the capacity of s.  Appending nothing returns s itself; elements that
\* do not fit behind s go, with those of s, to newly allocated memory.
appendHist(s, cap, xs) ==
    IF Len(xs.v) = 0 THEN s
    ELSE IF Len(s.v) + Len(xs.v) <= cap
    THEN [nil |-> FALSE, v |-> s.v \o xs.v, array |-> s.array]
    ELSE [nil |-> FALSE, v |-> s.v \o xs.v, array |-> "new"]

\* NameHistory of history.go: append(emptyHist, p.history...), emptyHist
\* being make([]PastName, 0, 0) and p.history living in the Profile's memory.
NameHistoryNoCtx(prof) ==
    appendHist([nil |-> FALSE, v |-> <<>>, array |-> "emptyHist"], 0,
               [nil |-> prof.history.nil, v |-> prof.history.v, array |-> "p.history"])

(***************************************************************************)
(* A client of a Store that keeps the Profile of a lookup and loads its    *)
(* fields lazily, as the tests of cache_test.go do, while other lookups    *)
(* go through the same Store.                                              *)
(***************************************************************************)
LazyIDs == {"id1"}
LazyUsernames == {"Al"}

LazyHistoryAnswers ==
    {Failure(Sentinel("testError")), Garbage(204),
     Response(200, JArr(<<JObj([name |-> JStr("Al")])>>)),
     Response(200, JArr(<<JObj([name |-> JStr("Al")]),
                           JObj([name |-> JStr("Bo"), changedToAt |-> JNum(1500)])>>))}

LazyPropertiesAnswers ==
    {Failure(Sentinel("testError")),
     Response(200, JObj([id |-> JStr("id1"), name |-> JStr("Bo"), properties |-> JArr(<<>>)])),
     Response(200, JObj([id |-> JStr("id1"), name |-> JStr("Al"),
                         properties |-> JArr(<<Textures("eyJ0ZXh0dXJlcyI6eyJTS0lOIjp7InVybCI6InMucG5nIiwibWV0YWRhdGEiOnsibW9kZWwiOiJzbGltIn19LCJDQVBFIjp7InVybCI6ImMucG5nIn19fQ==")>>)]))}

LazyNameAnswers ==
    {Garbage(204), Response(200, JObj([id |-> JStr("id1"), name |-> JStr("Al")]))}

\* p, err := ps.op(arg), r being what the operation did.
Obtain(op, arg, out, r) ==
    /\ p' = r.p
    /\ cache' = r.cache
    /\ in' = Input(op, arg, ZeroTime, <<>>, out)
    /\ ret' = [NoCall EXCEPT !.op = op, !.arg = arg, !.panic = r.panic, !.p = r.p, !.err = r.err]
    /\ netLog' = r.net
    /\ UNCHANGED calls

ObtainByName ==
    /\ Running
    /\ \E username \in LazyUsernames, out \in LazyNameAnswers :
         \E r \in {StoreLoad(cache, username, out)} :
           Obtain("Store.Load", username, out, r)

ObtainByID ==
    /\ Running
    /\ \E id \in LazyIDs, out \in LazyHistoryAnswers :
         \E r \in {StoreLoadByID(cache, id, out)} :
           Obtain("Store.LoadByID", id, out, r)

\* ps.LoadWithNameHistory(id), the result dropped.
LookupNameHistory ==
    /\ Running
    /\ \E id \in LazyIDs, out \in LazyHistoryAnswers :
         \E r \in {StoreLoadWithNameHistory(cache, id, out)} :
           StoreCall("Store.LoadWithNameHistory", id, ZeroTime, out, r)

\* ps.LoadWithProperties(id), the result dropped.
LookupProperties ==
    /\ Running
    /\ \E id \in LazyIDs, out \in LazyPropertiesAnswers :
         \E r \in {StoreLoadWithProperties(cache, id, out)} :
           StoreCall("Store.LoadWithProperties", id, ZeroTime, out, r)

\* The step of a lazy-load method op on p that did r.
LazyCall(op, out, r) ==
    /\ p' = r.prof
    /\ cache' = r.cache
    /\ in' = Input(op, p.id, ZeroTime, <<>>, out)
    /\ ret' = [NoCall EXCEPT !.op = op, !.arg = p.id, !.panic = r.panic, !.p = r.loaded,
                             !.hist = r.hist, !.props = r.props, !.err = r.err]
    /\ netLog' = r.net
    /\ UNCHANGED calls

CallLoadPropertiesNoCtx ==
    /\ Running
    /\ ~p.nil
    /\ \E out \in LazyPropertiesAnswers :
         \E r \in {LoadPropertiesNoCtx(p, cache, out)} :
           LazyCall("Profile.LoadProperties", out, r)

CallLoadNameHistoryNoCtx ==
    /\ Running
    /\ ~p.nil
    /\ \E out \in LazyHistoryAnswers :
         \E r \in {LoadNameHistoryNoCtx(p, cache, out)} :
           LazyCall("Profile.LoadNameHistory", out, r)

\* hist := p.NameHistory()
CallNameHistoryNoCtx ==
    /\ Running
    /\ ~p.nil
    /\ in' = Input("Profile.NameHistory", p.id, ZeroTime, <<>>, Garbage(0))
    /\ ret' = [NoCall EXCEPT !.op = "Profile.NameHistory", !.arg = p.id,
                             !.hist = NameHistoryNoCtx(p)]
    /\ netLog' = <<>>
    /\ UNCHANGED <<p, cache, calls>>

\* hist[0].name = "Zz" by the client that holds the slice NameHistory()
\* returned: the write lands in the memory the slice lives in.
WriteReturnedHistory ==
    /\ Running
    /\ ret.op = "Profile.NameHistory"
    /\ Len(ret.hist.v) > 0
    /\ ret.hist.v[1].name # "Zz"
    /\ ret' = [ret EXCEPT !.hist.v[1].name = "Zz"]
    /\ p' = IF ret.hist.array = "p.history" THEN [p EXCEPT !.history.v[1].name = "Zz"] ELSE p
    /\ UNCHANGED <<in, netLog, cache, calls>>

InitLazy ==
    /\ p = nilProfile
    /\ in = NoInput
    /\ ret = NoCall
    /\ netLog = <<>>
    /\ cache \in {NoCache, newLoggingTestCache}
    /\ calls = <<>>

NextLazy ==
    \/ ObtainByName
    \/ ObtainByID
    \/ LookupNameHistory
    \/ LookupProperties
    \/ CallLoadPropertiesNoCtx
    \/ CallLoadNameHistoryNoCtx
    \/ CallNameHistoryNoCtx
    \/ WriteReturnedHistory
    \/ ResetCacheReads

SpecLazy == InitLazy /\ [][NextLazy]_vars

(***************************************************************************)
(* LoadProperties of the revision with a mutex (part_001 105-133, part_002 *)
(* 102-119, the struct of part_004) called from several goroutines on one  *)
(* Profile, each goroutine calling once.  p.mutex names the goroutine that *)
(* holds the mutex ("" when it is free); calls[g] is the call of goroutine *)
(* g: the statement it is at, whether it asked the service, its locals     *)
(* loaded and err, and the Properties it returned.                         *)
(***************************************************************************)
MutexGoroutines == {"g1", "g2", "g3"}

Invocation(pc, fetched, loaded, err, result) ==
    [pc |-> pc, fetched |-> fetched, loaded |-> loaded, err |-> err, result |-> result]
NotCalled == Invocation("idle", FALSE, nilProfile, NoErr, nilProperties)

\* A Profile of part_004 with its mutex.
guarded(prof, holder) ==
    [nil |-> prof.nil, id |-> prof.id, name |-> prof.name, history |-> prof.history,
     properties |-> prof.properties, cache |-> prof.cache, mutex |-> holder]

MutexPropertiesAnswers ==
    {Failure(Sentinel("testError")), Garbage(204),
     Response(200, JObj([id |-> JStr("id1"), name |-> JStr("Al"), properties |-> JArr(<<>>)])),
     Response(200, JObj([id |-> JStr("id1"), name |-> JStr("Al"),
                         properties |-> JArr(<<Textures("eyJ0ZXh0dXJlcyI6eyJTS0lOIjp7InVybCI6InMucG5nIiwibWV0YWRhdGEiOnsibW9kZWwiOiJzbGltIn19LCJDQVBFIjp7InVybCI6ImMucG5nIn19fQ==")>>)]))}

\* A Lock that does not wait for the goroutine holding the mutex.
lockWithoutWaiting(holder) == TRUE

\* p.mutex.Lock() returns only once no goroutine holds the mutex.
lock(holder) == holder = ""

\* "p.mutex.Lock()"
MutexLock(g) ==
    /\ ~ret.panic
    /\ calls[g].pc = "idle"
    /\ lock(p.mutex)
    /\ p' = [p EXCEPT !.mutex = g]
    /\ calls' = [calls EXCEPT ![g].pc = "test"]
    /\ UNCHANGED <<in, ret, netLog, cache>>

\* "if p.properties == nil"
TestProperties(g) ==
    /\ ~ret.panic
    /\ calls[g].pc = "test"
    /\ calls' = [calls EXCEPT ![g].pc = IF p.properties.nil THEN "load" ELSE "return"]
    /\ UNCHANGED <<p, in, ret, netLog, cache>>

\* "loaded, err = Store{c}.LoadWithProperties(p.id)" or "loaded, err =
\* LoadWithProperties(p.id)", and "if err != nil".  A panic of the load
\* runs the deferred Unlock and ends the program.
LoadProperty(g) ==
    /\ ~ret.panic
    /\ calls[g].pc = "load"
    /\ \E out \in MutexPropertiesAnswers :
         \E l \in {IF p.cache THEN StoreLoadWithProperties(cache, p.id, out)
                   ELSE StoreOutcome(LoadWithPropertiesNoCtx(p.id, out), cache)} :
           /\ in' = Input("Profile.LoadProperties", p.id, ZeroTime, <<>>, out)
           /\ netLog' = l.net
           /\ cache' = l.cache
           /\ IF l.panic
              THEN /\ calls' = [calls EXCEPT ![g] = Invocation("done", TRUE, l.p, l.err,
                                                                  nilProperties)]
                   /\ ret' = [NoCall EXCEPT !.op = "Profile.LoadProperties", !.arg = p.id,
                                            !.panic = TRUE]
                   /\ p' = [p EXCEPT !.mutex = ""]
              ELSE /\ calls' = [calls EXCEPT ![g] =
                                   Invocation(IF l.err # NoErr THEN "return" ELSE "memoize",
                                              TRUE, l.p, l.err, nilProperties)]
                   /\ UNCHANGED <<p, ret>>

\* "p.properties = loaded.properties"
Memoize(g) ==
    /\ ~ret.panic
    /\ calls[g].pc = "memoize"
    /\ p' = [p EXCEPT !.properties = calls[g].loaded.properties]
    /\ calls' = [calls EXCEPT ![g].pc = "return"]
    /\ UNCHANGED <<in, ret, netLog, cache>>

\* "return nil, err" or "return p.properties, nil", and the deferred
\* "p.mutex.Unlock()".
UnlockAndReturn(g) ==
    /\ ~ret.panic
    /\ calls[g].pc = "return"
    /\ \E result \in {IF calls[g].err # NoErr THEN nilProperties ELSE p.properties} :
         /\ calls' = [calls EXCEPT ![g].pc = "done", ![g].result = result]
         /\ ret' = [NoCall EXCEPT !.op = "Profile.LoadProperties", !.arg = p.id,
                                  !.p = calls[g].loaded, !.err = calls[g].err]
    /\ p' = [p EXCEPT !.mutex = ""]
    /\ UNCHANGED <<in, netLog, cache>>

InitMutex ==
    /\ cache \in {NoCache, newLoggingTestCache}
    /\ p = guarded(profile("id1", "Al", NilHist, nilProperties, ~cache.nil), "")
    /\ in = NoInput
    /\ ret = NoCall
    /\ netLog = <<>>
    /\ calls = [g \in MutexGoroutines |-> NotCalled]

NextMutex ==
    \E g \in MutexGoroutines :
        \/ MutexLock(g)
        \/ TestProperties(g)
        \/ LoadProperty(g)
        \/ Memoize(g)
        \/ UnlockAndReturn(g)

SpecMutex == InitMutex /\ [][NextMutex]_vars

(***************************************************************************)
(* The lazy-load methods of profile.go called from several goroutines on   *)
(* one Profile.  The methods take no lock, so a call is a sequence of      *)
(* steps, one per statement that reads or writes the shared struct, and    *)
(* the steps of concurrent calls interleave.  calls[g] is the call         *)
(* goroutine g is in: the statement it is at, the method, and the locals   *)
(* loaded and err.                                                         *)
(***************************************************************************)
Goroutines == {"g1", "g2"}

Activation(pc, method, loaded, err) ==
    [pc |-> pc, method |-> method, loaded |-> loaded, err |-> err]
Idle == Activation("idle", "none", NilProfile, NoErr)

\* What the service may answer while the profile is renamed and reskinned
\* between two requests.
ConcPropertiesAnswers ==
    {Failure(Sentinel("testError")),
     Response(200, JObj([id |-> JStr("id1"), name |-> JStr("Al"),
                         properties |-> JArr(<<Textures("eyJ0ZXh0dXJlcyI6eyJTS0lOIjp7InVybCI6InMucG5nIn19fQ==")>>)])),
     Response(200, JObj([id |-> JStr("id1"), name |-> JStr("Bo"),
                         properties |-> JArr(<<Textures("eyJ0ZXh0dXJlcyI6eyJTS0lOIjp7InVybCI6InMucG5nIiwibWV0YWRhdGEiOnsibW9kZWwiOiJzbGltIn19LCJDQVBFIjp7InVybCI6ImMucG5nIn19fQ==")>>)]))}
ConcHistoryAnswers ==
    {Failure(Sentinel("testError")),
     Response(200, JArr(<<JObj([name |-> JStr("Al")])>>)),
     Response(200, JArr(<<JObj([name |-> JStr("Al")]),
                          JObj([name |-> JStr("Bo"), changedToAt |-> JNum(1500)])>>))}

\* LoadProperties is entered: "if p.Properties == nil || force".
EnterLoadProperties(g) ==
    /\ calls[g].pc = "idle"
    /\ \E force \in BOOLEAN :
         calls' = [calls EXCEPT ![g] =
                      Activation(IF NeedsLoad(p.Properties.nil, force) THEN "load" ELSE "return",
                                 "LoadProperties", NilProfile, NoErr)]
    /\ UNCHANGED <<p, in, ret, netLog, cache>>

\* LoadNameHistory is entered: "if p.NameHistory == nil || force".
EnterLoadNameHistory(g) ==
    /\ calls[g].pc = "idle"
    /\ \E force \in BOOLEAN :
         calls' = [calls EXCEPT ![g] =
                      Activation(IF NeedsLoad(p.NameHistory.nil, force) THEN "load" ELSE "return",
                                 "LoadNameHistory", NilProfile, NoErr)]
    /\ UNCHANGED <<p, in, ret, netLog, cache>>

\* "loaded, err = LoadWith...(ctx, p.ID)" and the test of err.
Fetch(g) ==
    /\ calls[g].pc = "load"
    /\ \E out \in IF calls[g].method = "LoadProperties" THEN ConcPropertiesAnswers
                  ELSE ConcHistoryAnswers :
         \E l \in {IF calls[g].method = "LoadProperties" THEN LoadWithProperties(p.ID, out)
                   ELSE LoadWithNameHistory(p.ID, out)} :
           /\ calls' = [calls EXCEPT ![g] =
                           Activation(IF l.err # NoErr THEN "return" ELSE "setName",
                                      calls[g].method, l.p, remapUnsetID(l.err, p.ID))]
           /\ netLog' = l.net
    /\ UNCHANGED <<p, in, ret, cache>>

\* "p.Name = loaded.Name"
SetName(g) ==
    /\ calls[g].pc = "setName"
    /\ p' = [p EXCEPT !.Name = calls[g].loaded.Name]
    /\ calls' = [calls EXCEPT ![g] = [calls[g] EXCEPT !.pc = "setField"]]
    /\ UNCHANGED <<in, ret, netLog, cache>>

\* "p.Properties = loaded.Properties", "p.NameHistory = loaded.NameHistory"
SetField(g) ==
    /\ calls[g].pc = "setField"
    /\ p' = IF calls[g].method = "LoadProperties"
            THEN [p EXCEPT !.Properties = calls[g].loaded.Properties]
            ELSE [p EXCEPT !.NameHistory = calls[g].loaded.NameHistory]
    /\ calls' = [calls EXCEPT ![g] = [calls[g] EXCEPT !.pc = "return"]]
    /\ UNCHANGED <<in, ret, netLog, cache>>

\* "return p.Properties, err", "return p.NameHistory, err"
Return(g) ==
    /\ calls[g].pc = "return"
    /\ ret' = IF calls[g].method = "LoadProperties"
              THEN [NoCall EXCEPT !.op = "LoadProperties", !.arg = p.ID,
                                  !.props = p.Properties, !.err = calls[g].err]
              ELSE [NoCall EXCEPT !.op = "LoadNameHistory", !.arg = p.ID,
                                  !.hist = p.NameHistory, !.err = calls[g].err]
    /\ calls' = [calls EXCEPT ![g] = Idle]
    /\ UNCHANGED <<p, in, netLog, cache>>

InitConc ==
    /\ p = MkProfile("id1", "Al", NilHist, NilProps)
    /\ in = NoInput
    /\ ret = NoCall
    /\ netLog = <<>>
    /\ cache = NoCache
    /\ calls = [g \in Goroutines |-> Idle]

NextConc ==
    \E g \in Goroutines :
        \/ EnterLoadProperties(g)
        \/ EnterLoadNameHistory(g)
        \/ Fetch(g)
        \/ SetName(g)
        \/ SetField(g)
        \/ Return(g)

SpecConc == InitConc /\ [][NextConc]_vars

(***************************************************************************)
(* Properties of the lazily loaded fields (SpecProfile).  In a step of     *)
(* SpecProfile, p is the profile before the call and p', ret' and netLog'  *)
(* are the profile, the returned values and the requests after it.         *)
(***************************************************************************)
LazyOps == {"LoadNameHistory", "LoadProperties"}

\* The field the method op loads is nil in prof.
Unknown(prof, op) ==
    IF op = "LoadNameHistory" THEN prof.NameHistory.nil ELSE prof.Properties.nil

\* C1: a LoadNameHistory or LoadProperties call that fails leaves Name,
\* NameHistory and Properties (and ID) as they were and returns, next to the
\* error, the value the field had before the call (nil if never loaded).
C1_FailedLoadLeavesProfile ==
    [][(ret'.op \in LazyOps /\ ret'.err # NoErr)
         => /\ p' = p
            /\ ret'.op = "LoadNameHistory" => ret'.hist = p.NameHistory
            /\ ret'.op = "LoadProperties" => ret'.props = p.Properties]_vars

\* A forced reload of a known name history failed at the transport and the
\* known history was returned with the error.
C1_Witness ==
    /\ ret.op = "LoadNameHistory"
    /\ ret.force
    /\ netLog # <<>>
    /\ ret.err # NoErr
    /\ ~ret.hist.nil
    /\ p.NameHistory = ret.hist

\* C6: a LoadNameHistory call that loads successfully replaces Name and
\* NameHistory by those of the loaded profile, returns the new history with a
\* nil error and leaves ID and Properties; LoadProperties likewise replaces
\* Name and Properties, returns the new properties and leaves ID and
\* NameHistory.
C6_SuccessfulLoadReplaces ==
    [][(ret'.op \in LazyOps /\ ret'.err = NoErr /\ netLog' # <<>>)
         => /\ ~ret'.p.nil
            /\ p'.ID = p.ID
            /\ p'.Name = ret'.p.Name
            /\ ret'.op = "LoadNameHistory"
                 => /\ p'.NameHistory = ret'.p.NameHistory
                    /\ ret'.hist = ret'.p.NameHistory
                    /\ p'.Properties = p.Properties
            /\ ret'.op = "LoadProperties"
                 => /\ p'.Properties = ret'.p.Properties
                    /\ ret'.props = ret'.p.Properties
                    /\ p'.NameHistory = p.NameHistory]_vars

\* Properties were loaded over the network into a profile with a known name
\* history, and the name is one only the service gives.
C6_Witness ==
    /\ ret.op = "LoadProperties"
    /\ ret.err = NoErr
    /\ netLog # <<>>
    /\ p.Name = "Bo"
    /\ p.Properties = Props("s.png", "c.png", Alex)
    /\ ret.props = p.Properties
    /\ ~p.NameHistory.nil

\* C7: a method loads exactly when its field is nil or force is true.  When
\* the field is loaded (empty included) and force is false, no request is
\* sent, no field changes (Name included) and the stored value is returned
\* with a nil error.  A load shows as the request for the profile's ID, or,
\* the ID being empty, as ErrUnsetPlayerID.
C7_LoadsOnlyWhenUnknownOrForced ==
    [][ret'.op \in LazyOps
         => IF Unknown(p, ret'.op) \/ ret'.force
            THEN IF p.ID = "" THEN ret'.err = ErrUnsetPlayerID
                 ELSE /\ Len(netLog') = 1
                      /\ netLog'[1].endpoint[2] = p.ID
            ELSE /\ netLog' = <<>>
                 /\ p' = p
                 /\ ret'.err = NoErr
                 /\ ret'.op = "LoadNameHistory" => ret'.hist = p.NameHistory
                 /\ ret'.op = "LoadProperties" => ret'.props = p.Properties]_vars

\* An unforced LoadNameHistory on a profile whose history is loaded and
\* empty returned the empty history without a request.
C7_Witness ==
    /\ ret.op = "LoadNameHistory"
    /\ ~ret.force
    /\ ret.arg # ""
    /\ ret.hist = emptyHist
    /\ ret.err = NoErr
    /\ netLog = <<>>

\* C8 as stated: on a Profile whose ID is empty both methods return
\* ErrUnsetPlayerID, whatever force and the fields are, and send no request.
C8_AlwaysUnsetPlayerID ==
    [][(ret'.op \in LazyOps /\ p.ID = "")
         => /\ ret'.err = ErrUnsetPlayerID
            /\ netLog' = <<>>]_vars

\* C8, amended: on a Profile whose ID is empty neither method sends a
\* request; a call that loads (the field is nil or force is true) returns
\* ErrUnsetPlayerID and leaves the profile, and a call that does not load
\* returns the stored value with a nil error.
C8_UnsetPlayerIDWhenLoading ==
    [][(ret'.op \in LazyOps /\ p.ID = "")
         => /\ netLog' = <<>>
            /\ p' = p
            /\ IF Unknown(p, ret'.op) \/ ret'.force
               THEN ret'.err = ErrUnsetPlayerID
               ELSE ret'.err = NoErr]_vars

\* A forced reload on a profile without ID whose history is known returned
\* ErrUnsetPlayerID and the known history.
C8_Witness ==
    /\ ret.op = "LoadNameHistory"
    /\ ret.arg = ""
    /\ ret.force
    /\ ~ret.hist.nil
    /\ ret.err = ErrUnsetPlayerID
    /\ netLog = <<>>

(***************************************************************************)
(* Properties of the package-level load operations (SpecLoad).             *)
(***************************************************************************)
SingleOps == {"Load", "LoadAtTime", "LoadByID", "LoadWithNameHistory", "LoadWithProperties"}

\* C9: Load, LoadAtTime, LoadByID, LoadWithNameHistory and LoadWithProperties
\* return exactly one of a non-nil profile and a non-nil error, whatever the
\* transport does and whatever shape the response has; LoadMany returns a nil
\* slice whenever it returns a non-nil error.
C9_ProfileOrError ==
    /\ ret.op \in SingleOps => (ret.p.nil <=> ret.err # NoErr)
    /\ (ret.op = "LoadMany" /\ ret.err # NoErr) => ret.ps.nil

\* LoadWithProperties got a document with an ID and a name whose properties
\* made the parse panic.
C9_Witness ==
    /\ ret.op = "LoadWithProperties"
    /\ in.out.status = 200
    /\ in.out.parseOk
    /\ in.out.j.t = "object"
    /\ Is(in.out.j.m, "id", "string")
    /\ Is(in.out.j.m, "name", "string")
    /\ ~Has(in.out.j.m, "demo")
    /\ ret.err = URLError("Parse", loadWithPropertiesURL(ret.arg), ErrUnknownFormat)
    /\ ret.p.nil

\* C10: Load and LoadAtTime with an empty username, and LoadByID,
\* LoadWithNameHistory and LoadWithProperties with an empty ID, return
\* ErrNoSuchProfile and a nil profile without sending a request.
C10_EmptyArgument ==
    (ret.op \in SingleOps /\ ret.arg = "")
        => /\ ret.err = ErrNoSuchProfile
           /\ ret.p.nil
           /\ netLog = <<>>

\* Load was called with the empty username while the service would have
\* answered with a profile.
C10_Witness ==
    /\ ret.op = "Load"
    /\ ret.arg = ""
    /\ in.out = Response(200, JObj([id |-> JStr("id1"), name |-> JStr("Al")]))
    /\ ret.err = ErrNoSuchProfile

\* The endpoint the call i addresses.
Endpoint(i) ==
    CASE i.op = "Load" -> loadURL(i.arg)
      [] i.op = "LoadAtTime" -> loadAtTimeURL(i.arg, i.t.sec)
      [] i.op \in {"LoadByID", "LoadWithNameHistory"} -> loadWithNameHistoryURL(i.arg)
      [] i.op = "LoadWithProperties" -> loadWithPropertiesURL(i.arg)
      [] OTHER -> loadManyURL

\* The error the transport reports for the request of the call i (nil when
\* it hands over a decoded document).
TransportError(i) ==
    IF i.op = "LoadMany"
    THEN ExchangeJSON(loadManyURL, SelectSeq(i.names, LAMBDA u : u # ""), i.out).err
    ELSE FetchJSON(Endpoint(i), i.out).err

\* The error e is a failed request (a response with a status other than 200).
FailedRequest(e) == e.Op # "" /\ e.Err = "FailedRequestError"

\* C11: the error of the transport is classified: a failed request with
\* status 204 is returned as ErrNoSuchProfile; otherwise a failed request
\* with the service error code "TooManyRequestsException" is returned as
\* ErrTooManyRequests; every other error of the transport (a cancelled
\* context included) is returned as the same value; and a call sends at most
\* one request.
C11_ErrorClassification ==
    ret.op # "none"
        => /\ Len(netLog) <= 1
           /\ (netLog # <<>> /\ TransportError(in) # NoErr)
                => ret.err = IF FailedRequest(TransportError(in))
                                  /\ TransportError(in).StatusCode = 204
                             THEN ErrNoSuchProfile
                             ELSE IF FailedRequest(TransportError(in))
                                       /\ TransportError(in).ErrorCode = "TooManyRequestsException"
                             THEN ErrTooManyRequests
                             ELSE TransportError(in)

\* The context of a LoadWithProperties call was cancelled and the call
\* returned the error of the transport, having sent one request.
C11_Witness ==
    /\ ret.op = "LoadWithProperties"
    /\ in.out = Failure(Sentinel("context.Canceled"))
    /\ Len(netLog) = 1
    /\ ret.err = URLError("Get", loadWithPropertiesURL(ret.arg), Sentinel("context.Canceled"))
    /\ ret.p.nil

\* The service answered the request of the call with a document.
Answered == ret.op # "none" /\ netLog # <<>> /\ TransportError(in) = NoErr

\* The call returned the format error for its endpoint and a nil result.
ReturnedUnknownFormat ==
    /\ ret.err = URLError("Parse", Endpoint(in), ErrUnknownFormat)
    /\ ret.p.nil
    /\ ret.ps.nil

\* The field k of the object m, if there, is not a boolean.
BadFlag(m, k) == Has(m, k) /\ m[k].t # "bool"

\* j is a record flagged as the record of a demo account.
DemoRecord(j) == j.t = "object" /\ Is(j.m, "demo", "bool") /\ j.m["demo"].b

\* j is no profile record: not an object, or with id, name, demo or legacy
\* missing or of the wrong type.
BadRecord(j) ==
    \/ j.t # "object"
    \/ ~Is(j.m, "id", "string") \/ ~Is(j.m, "name", "string")
    \/ BadFlag(j.m, "demo") \/ BadFlag(j.m, "legacy")

\* j is no name history: not an array, or with an element that is no object
\* with a name.
BadHistory(j) ==
    \/ j.t # "array"
    \/ \E i \in 1 .. Len(j.a) : j.a[i].t # "object" \/ ~Is(j.a[i].m, "name", "string")

\* e is a property the aggregator passes over: a name and a value, the name
\* being none it knows.
IgnoredProperty(e) ==
    /\ e.t = "object"
    /\ Is(e.m, "name", "string") /\ Is(e.m, "value", "string")
    /\ e.m["name"].s # "textures"

\* e is a "textures" property whose value decodes to a document without a
\* textures object.
LacksTextures(e) ==
    /\ e.t = "object"
    /\ Is(e.m, "name", "string") /\ Is(e.m, "value", "string")
    /\ e.m["name"].s = "textures"
    /\ decodeTextures(e.m["value"].s).json
    /\ ~Is(decodeTextures(e.m["value"].s).m, "textures", "object")

\* The properties of the record j are missing or no array, or the first
\* property that is not passed over lacks its textures.
BadProperties(j) ==
    \/ ~Is(j.m, "properties", "array")
    \/ \E i \in 1 .. Len(j.m["properties"].a) :
          /\ \A k \in 1 .. (i - 1) : IgnoredProperty(j.m["properties"].a[k])
          /\ LacksTextures(j.m["properties"].a[i])

\* The document j, answered to the operation op, violates one of the
\* structural assumptions.
Violates(op, j) ==
    CASE op \in {"Load", "LoadAtTime"} -> BadRecord(j)
      [] op \in {"LoadByID", "LoadWithNameHistory"} -> BadHistory(j)
      [] op = "LoadWithProperties" -> BadRecord(j) \/ BadProperties(j)
      [] OTHER -> j.t # "array" \/ \E i \in 1 .. Len(j.a) : BadRecord(j.a[i])

\* The same, the records flagged as demo accounts left aside.
ViolatesBesidesDemo(op, j) ==
    CASE op \in {"Load", "LoadAtTime"} -> ~DemoRecord(j) /\ BadRecord(j)
      [] op \in {"LoadByID", "LoadWithNameHistory"} -> BadHistory(j)
      [] op = "LoadWithProperties" -> ~DemoRecord(j) /\ (BadRecord(j) \/ BadProperties(j))
      [] OTHER -> j.t # "array" \/ \E i \in 1 .. Len(j.a) : ~DemoRecord(j.a[i]) /\ BadRecord(j.a[i])

\* C12 as stated: a fetched document that violates a structural assumption
\* (top-level value of the wrong type; id, name, demo, legacy, properties or
\* textures missing or of the wrong type) makes the load return the Parse
\* error with its endpoint and the unknown-format marker, and a nil result.
C12_ViolationIsUnknownFormat ==
    (Answered /\ Violates(ret.op, in.out.j)) => ReturnedUnknownFormat

\* C12, amended: a record whose demo flag is true is rejected as a demo
\* account before its other fields are looked at (ErrNoSuchProfile and a nil
\* profile from a single load, skipped by LoadMany); every other fetched
\* document that violates a structural assumption makes the load return the
\* Parse error with its endpoint and the unknown-format marker, and a nil
\* result.
C12_ExaminedViolationIsUnknownFormat ==
    Answered
        => /\ ViolatesBesidesDemo(ret.op, in.out.j) => ReturnedUnknownFormat
           /\ (ret.op \in SingleOps /\ DemoRecord(in.out.j))
                => ret.err = ErrNoSuchProfile /\ ret.p.nil

\* LoadWithProperties got a record with ID and name whose textures property
\* decodes to a document without textures, and returned the format error.
C12_Witness ==
    /\ ret.op = "LoadWithProperties"
    /\ Answered
    /\ ~BadRecord(in.out.j)
    /\ Is(in.out.j.m, "properties", "array")
    /\ BadProperties(in.out.j)
    /\ ReturnedUnknownFormat

\* C13: LoadMany with LoadManyMaxSize usernames (or fewer) does not fail with
\* ErrMaxSizeExceeded; with n usernames, n above LoadManyMaxSize and the empty
\* ones counted, it returns a nil slice and ErrMaxSizeExceeded{n} and sends
\* no request.
C13_SizeCeiling ==
    ret.op = "LoadMany"
        => IF Len(ret.names) > LoadManyMaxSize
           THEN /\ ret.ps.nil
                /\ ret.err = ErrMaxSizeExceeded(Len(ret.names))
                /\ netLog = <<>>
           ELSE ret.err.Err # "ErrMaxSizeExceeded"

\* LoadMany was given one username and LoadManyMaxSize empty strings, and
\* refused them.
C13_Witness ==
    /\ ret.op = "LoadMany"
    /\ Len(SelectSeq(ret.names, LAMBDA u : u # "")) = 1
    /\ Len(ret.names) = LoadManyMaxSize + 1
    /\ ret.err = ErrMaxSizeExceeded(LoadManyMaxSize + 1)
    /\ ret.ps.nil
    /\ netLog = <<>>

\* The Profile a record of the by-name endpoints stands for.
RecordProfile(j) ==
    MkProfile(j.m["id"].s, j.m["name"].s,
              IF Is(j.m, "legacy", "bool") /\ j.m["legacy"].b THEN emptyHist ELSE NilHist,
              NilProps)

\* The profiles of the records of a that are not flagged demo, in the order
\* of a.
RECURSIVE NonDemoProfiles(_)
NonDemoProfiles(a) ==
    IF a = <<>> THEN <<>>
    ELSE IF DemoRecord(Head(a)) THEN NonDemoProfiles(Tail(a))
    ELSE <<RecordProfile(Head(a))>> \o NonDemoProfiles(Tail(a))

\* C14: Load, LoadAtTime and LoadWithProperties answered with a record whose
\* demo flag is true return ErrNoSuchProfile and a nil profile; LoadMany,
\* answered with an array of records, returns with a nil error the profiles
\* of the records that are not flagged demo, in the order of the response;
\* no returned profile comes from a record flagged demo.
C14_DemoNeverReturned ==
    Answered
        => /\ (ret.op \in {"Load", "LoadAtTime", "LoadWithProperties"} /\ DemoRecord(in.out.j))
                => ret.err = ErrNoSuchProfile /\ ret.p.nil
           /\ (/\ ret.op = "LoadMany"
               /\ in.out.j.t = "array"
               /\ \A i \in 1 .. Len(in.out.j.a) :
                     DemoRecord(in.out.j.a[i]) \/ ~BadRecord(in.out.j.a[i]))
                => /\ ret.err = NoErr
                   /\ ret.ps = Slice(NonDemoProfiles(in.out.j.a))

\* LoadMany was answered with the record of a demo account followed by the
\* record of a legacy account, and returned the second alone.
C14_Witness ==
    /\ ret.op = "LoadMany"
    /\ Answered
    /\ in.out.j.t = "array" /\ Len(in.out.j.a) = 2
    /\ DemoRecord(in.out.j.a[1])
    /\ ret.err = NoErr
    /\ ret.ps = Slice(<<MkProfile("id2", "Bo", emptyHist, NilProps)>>)

\* The usernames of names that are not empty, in the order of names.
NonEmpty(names) == SelectSeq(names, LAMBDA u : u # "")

\* C15: LoadMany (given no more than LoadManyMaxSize usernames) sends one
\* request whose body is the usernames that are not empty, in the order
\* given; given no username that is not empty it sends no request and
\* returns an empty result with a nil error.
C15_NoEmptyUsernameSent ==
    (ret.op = "LoadMany" /\ Len(ret.names) <= LoadManyMaxSize)
        => IF NonEmpty(ret.names) = <<>>
           THEN netLog = <<>> /\ ret.err = NoErr /\ ret.ps.v = <<>>
           ELSE netLog = <<Request("POST", loadManyURL, NonEmpty(ret.names))>>

\* LoadMany was given an empty string before a username and sent the
\* username alone.
C15_Witness ==
    /\ ret.op = "LoadMany"
    /\ Len(ret.names) = 2 /\ ret.names[1] = "" /\ ret.names[2] # ""
    /\ netLog = <<Request("POST", loadManyURL, <<ret.names[2]>>)>>

\* C16: no two elements of the sequence LoadMany returns are the same
\* profile (have the same ID), whatever the list of usernames.
C16_EachProfileOnce ==
    ret.op = "LoadMany"
        => \A i, k \in 1 .. Len(ret.ps.v) : i # k => ret.ps.v[i].ID # ret.ps.v[k].ID

\* LoadMany was given a username twice, was answered with the profile's
\* record once for each, and returned the profile twice.
C16_ProfileReturnedTwice ==
    /\ ret.op = "LoadMany"
    /\ ret.names = <<"Al", "Al">>
    /\ netLog = <<Request("POST", loadManyURL, <<"Al", "Al">>)>>
    /\ ret.err = NoErr
    /\ Len(ret.ps.v) = 2
    /\ ret.ps.v[1] = ret.ps.v[2]

\* C17: a profile that LoadWithNameHistory or LoadByID returns with a nil
\* error has a NameHistory that is not nil, whatever array the service
\* answers with.
C17_NameHistoryLoaded ==
    (ret.op \in {"LoadByID", "LoadWithNameHistory"} /\ ret.err = NoErr)
        => ~ret.p.nil /\ ~ret.p.NameHistory.nil

\* LoadWithNameHistory was answered with the empty array and returned, with
\* a nil error, a profile without name and with a nil NameHistory.
C17_NilHistoryReturned ==
    /\ ret.op = "LoadWithNameHistory"
    /\ in.out = Response(200, JArr(<<>>))
    /\ ret.err = NoErr
    /\ ~ret.p.nil
    /\ ret.p.Name = ""
    /\ ret.p.NameHistory.nil

(***************************************************************************)
(* Properties of the parsers (SpecParsers).  in.j is the value the parser  *)
(* was given, ret what it returned.                                        *)
(***************************************************************************)
\* The array arr is a name-history payload: objects with a string name and,
\* possibly, a number changedToAt.
NamePayload(arr) ==
    \A i \in 1 .. Len(arr) :
        /\ arr[i].t = "object"
        /\ Is(arr[i].m, "name", "string")
        /\ Has(arr[i].m, "changedToAt") => arr[i].m["changedToAt"].t = "number"

\* The names of a payload, and those of a history, in their order.
PayloadNames(arr) == [i \in 1 .. Len(arr) |-> arr[i].m["name"].s]
HistoryNames(hist) == [k \in 1 .. Len(hist.v) |-> hist.v[k].Name]

Reverse(s) == [i \in 1 .. Len(s) |-> s[Len(s) + 1 - i]]
Front(s) == SubSeq(s, 1, Len(s) - 1)

\* buildHistory was called with a payload of at least one name.
BuiltHistory ==
    ret.op = "buildHistory" /\ Len(in.j.a) >= 1 /\ NamePayload(in.j.a)

Stamp(e) ==
    IF ~Has(e.m, "changedToAt") THEN ZeroTime
    ELSE IF e.m["changedToAt"].n = 1500 THEN Time(1, 500000000)
    ELSE IF e.m["changedToAt"].n = 2750 THEN Time(2, 750000000)
    ELSE msToTime(e.m["changedToAt"].n)

\* C25: buildHistory of an empty array returns ("", nil); of an array arr
\* of n >= 1 names it returns the name of the last element and a history
\* of length n-1 that is not nil, where (counting from 0) hist[k].Name is
\* the name of arr[n-2-k] and hist[k].Until the changedToAt of arr[n-1-k],
\* the zero time when there is none; a changedToAt on arr[0] is ignored and
\* the call does not panic.
C25_HistoryByIndex ==
    /\ (ret.op = "buildHistory" /\ Len(in.j.a) = 0)
         => ~ret.panic /\ ret.name = "" /\ ret.hist = NilHist
    /\ BuiltHistory
         => LET arr == in.j.a
                n == Len(arr)
            IN  /\ ~ret.panic
                /\ ret.name = arr[n].m["name"].s
                /\ ~ret.hist.nil
                /\ Len(ret.hist.v) = n - 1
                /\ \A k \in 0 .. (n - 2) :
                     /\ ret.hist.v[k + 1].Name = arr[(n - 2 - k) + 1].m["name"].s
                     /\ ret.hist.v[k + 1].Until = Stamp(arr[(n - 1 - k) + 1])

\* buildHistory was given three names, the first with a changedToAt, the
\* second without and the third with another, and returned a history of
\* two names.
C25_Witness ==
    /\ BuiltHistory
    /\ Len(in.j.a) = 3
    /\ Has(in.j.a[1].m, "changedToAt")
    /\ ~Has(in.j.a[2].m, "changedToAt")
    /\ Has(in.j.a[3].m, "changedToAt") /\ in.j.a[3].m["changedToAt"].n = 2750
    /\ Len(ret.hist.v) = 2
    /\ ret.hist.v[1].Until = Time(2, 750000000)
    /\ ret.hist.v[2].Until = ZeroTime
    /\ ret.hist.v[1].Name # ret.hist.v[2].Name

\* The record m has the fields fillProfile requires, of the types it
\* requires, and is not a demo record.
FillableRecord(m) ==
    /\ Is(m, "id", "string") /\ Is(m, "name", "string")
    /\ Has(m, "demo") => (m["demo"].t = "bool" /\ ~m["demo"].b)
    /\ Has(m, "legacy") => m["legacy"].t = "bool"

LegacyFlagged(m) == Is(m, "legacy", "bool") /\ m["legacy"].b

\* C26: fillProfile on a Profile (in.target before the call, p after it)
\* and a record: a legacy-flagged record gives a Profile whose NameHistory
\* is nil the empty history, which is not nil; a NameHistory that was
\* loaded is never overwritten; a record without legacy == true leaves
\* NameHistory as it was; and a demo record leaves the Profile as it was.
C26_FillProfileFrame ==
    ret.op = "fillProfile"
        => /\ (FillableRecord(in.j.m) /\ LegacyFlagged(in.j.m) /\ in.target.NameHistory.nil)
                => /\ ~ret.panic /\ ret.ok
                   /\ p.NameHistory = emptyHist /\ ~p.NameHistory.nil
                   /\ p.ID = in.j.m["id"].s /\ p.Name = in.j.m["name"].s
           /\ ~in.target.NameHistory.nil => p.NameHistory = in.target.NameHistory
           /\ ~LegacyFlagged(in.j.m) => p.NameHistory = in.target.NameHistory
           /\ FillableRecord(in.j.m)
                => ~ret.panic /\ ret.ok /\ p.Properties = in.target.Properties
           /\ DemoRecord(in.j) => (~ret.panic /\ ~ret.ok /\ p = in.target)

\* fillProfile has filled a Profile that had a loaded history from a
\* legacy-flagged record: the ID and the Name are those of the record, the
\* history is the one the Profile had.
C26_Witness ==
    /\ ret.op = "fillProfile" /\ ret.ok
    /\ LegacyFlagged(in.j.m)
    /\ in.target.NameHistory.v # <<>>
    /\ p.ID = "id1" /\ p.ID # in.target.ID
    /\ p.NameHistory = in.target.NameHistory

\* The textures of the decoded payload d.
TexturesOf(d) == d.m["textures"].m

\* A skin or cape entry: an object with a string url.
TextureEntry(e) == e.t = "object" /\ Is(e.m, "url", "string")

\* The skin entry e says the model is slim.
Slim(e) ==
    /\ Is(e.m, "metadata", "object")
    /\ Is(e.m["metadata"].m, "model", "string")
    /\ e.m["metadata"].m["model"].s = "slim"

\* The decoded value d is a textures payload: it decoded, its textures is
\* an object whose SKIN and CAPE, when there, are entries with metadata of
\* the expected types, and without a SKIN it holds a profileId of 32
\* hexadecimal digits.
TexturesPayload(d) ==
    /\ d.b64 /\ d.json
    /\ Is(d.m, "textures", "object")
    /\ Has(TexturesOf(d), "SKIN")
         => /\ TextureEntry(TexturesOf(d)["SKIN"])
            /\ Has(TexturesOf(d)["SKIN"].m, "metadata")
                 => /\ TexturesOf(d)["SKIN"].m["metadata"].t = "object"
                    /\ Has(TexturesOf(d)["SKIN"].m["metadata"].m, "model")
                         => TexturesOf(d)["SKIN"].m["metadata"].m["model"].t = "string"
    /\ ~Has(TexturesOf(d), "SKIN")
         => Is(d.m, "profileId", "string") /\ ~defaultModel(d.m["profileId"].s).panic
    /\ Has(TexturesOf(d), "CAPE") => TextureEntry(TexturesOf(d)["CAPE"])

\* C27: populateTextures on a textures payload: with a SKIN entry, SkinURL
\* is its url and Model is Alex exactly when metadata.model is "slim",
\* Steve otherwise; without one, SkinURL stays as it was (empty) and Model
\* is defaultModel(profileId); CapeURL is the url of the CAPE entry when
\* there is one and stays as it was (empty) otherwise.
C27_TexturesParsed ==
    (ret.op = "populateTextures" /\ TexturesPayload(decodeTextures(in.j.s)))
        => LET d == decodeTextures(in.j.s)
               ts == TexturesOf(d)
           IN  /\ ~ret.panic /\ ret.err = NoErr
               /\ Has(ts, "SKIN")
                    => /\ ret.props.SkinURL = ts["SKIN"].m["url"].s
                       /\ ret.props.Model = IF Slim(ts["SKIN"]) THEN Alex ELSE Steve
               /\ ~Has(ts, "SKIN")
                    => /\ ret.props.SkinURL = in.target.SkinURL
                       /\ ret.props.Model = defaultModel(d.m["profileId"].s).v
               /\ ret.props.CapeURL = IF Has(ts, "CAPE") THEN ts["CAPE"].m["url"].s
                                       ELSE in.target.CapeURL

\* populateTextures was given Properties whose model was Alex and a payload
\* with a SKIN that is not slim and no CAPE: the model is Steve, the skin
\* that of the payload, the cape as it was.
C27_Witness ==
    /\ ret.op = "populateTextures" /\ ~ret.panic /\ ret.err = NoErr
    /\ in.target.Model = Alex
    /\ Has(TexturesOf(decodeTextures(in.j.s)), "SKIN")
    /\ ~Has(TexturesOf(decodeTextures(in.j.s)), "CAPE")
    /\ ret.props = Props("s.png", in.target.CapeURL, Steve)

(***************************************************************************)
(* Properties of defaultModel (SpecDefaultModel).  in.j is the ID given,   *)
(* ret.model the model returned and ret.panic whether the call panicked.   *)
(***************************************************************************)
\* An ID of 32 lowercase hexadecimal digits.
IsValidID(uuid) == Len(uuid) = 32 /\ \A i \in 1 .. 32 : uuid[i] \in HexDigits

\* even(c) of the specification: true exactly for 0, 2, 4, 6, 8, a, c, e.
EvenDigit(c) == c \in {"0", "2", "4", "6", "8", "a", "c", "e"}

\* (even(id[7]) XOR even(id[23])) XOR (even(id[15]) XOR even(id[31])); the
\* specification counts characters from 0.
ParityRule(uuid) ==
    (EvenDigit(uuid[8]) # EvenDigit(uuid[24])) # (EvenDigit(uuid[16]) # EvenDigit(uuid[32]))

\* The value of a hexadecimal digit.
HexValue(c) ==
    CHOOSE v \in 0 .. 15 :
        <<"0", "1", "2", "3", "4", "5", "6", "7", "8", "9", "a", "b", "c", "d", "e", "f">>[v + 1] = c

\* The exclusive or of two values of four bits.
Xor(a, b) ==
    LET bit(x, w) == (x \div w) % 2
        at(w) == ((bit(a, w) + bit(b, w)) % 2) * w
    IN  at(1) + at(2) + at(4) + at(8)

\* The lowest four bits of Java's UUID.hashCode(): hilo = most ^ least,
\* hashCode = (int)(hilo >> 32) ^ (int) hilo.  The lowest four bits of a
\* 64-bit half are its 16th digit, those of its upper 32 bits its 8th.
JavaHashCodeLowBits(uuid) ==
    LET most(i) == HexValue(uuid[i])
        least(i) == HexValue(uuid[16 + i])
        hilo(i) == Xor(most(i), least(i))
    IN  Xor(hilo(8), hilo(16))

JavaHashCodeOdd(uuid) == JavaHashCodeLowBits(uuid) % 2 = 1

DefaultModelReturned == ret.op = "defaultModel"

\* C28: for every ID of 32 lowercase hexadecimal digits defaultModel returns
\* (it does not panic) Alex exactly when (even(id[7]) XOR even(id[23])) XOR
\* (even(id[15]) XOR even(id[31])) holds and Steve otherwise, even(c) being
\* true exactly for 0, 2, 4, 6, 8, a, c, e; and that is Alex exactly when
\* Java's UUID.hashCode() of the ID is odd.
C28_DefaultModelParity ==
    (DefaultModelReturned /\ IsValidID(in.j))
        => /\ ~ret.panic
           /\ ret.model = (IF ParityRule(in.j) THEN Alex ELSE Steve)
           /\ (ret.model = Alex) <=> JavaHashCodeOdd(in.j)

\* defaultModel returned Alex for Feathertail's ID, whose examined digits
\* are 0, 9, 7 and d, and whose hashCode is odd.
C28_Witness ==
    /\ DefaultModelReturned /\ in.j = Feathertail
    /\ ~ret.panic /\ ret.model = Alex
    /\ ParityRule(in.j) /\ JavaHashCodeOdd(in.j)

\* C29: whenever the ID holds, in any position, a character that is no
\* lowercase hexadecimal digit, defaultModel raises an error (it panics) and
\* returns no model.
C29_InvalidIDRejected ==
    (DefaultModelReturned /\ Len(in.j) = 32 /\ \E i \in 1 .. 32 : in.j[i] \notin HexDigits)
        => ret.panic

\* defaultModel was given an ID whose first character is "g", examined none
\* but the four digits it reads, and returned Steve.
C29_SilentDefault ==
    /\ DefaultModelReturned /\ in.j = [Zeros(32) EXCEPT ![1] = "g"]
    /\ ~IsValidID(in.j)
    /\ ~ret.panic /\ ret.model = Steve

(***************************************************************************)
(* Properties of buildProperties (SpecParsers).  in.j.a is the list of     *)
(* {name, value} pairs given; ret.props and ret.err are the results.       *)
(***************************************************************************)
BuiltProperties == ret.op = "buildProperties"

PairName(e) == e.m["name"].s
PairValue(e) == e.m["value"].s

\* The value of a textures pair fails base64 or JSON decoding.
FailsDecoding(e) ==
    PairName(e) = "textures"
        /\ (~decodeTextures(PairValue(e)).b64 \/ ~decodeTextures(PairValue(e)).json)

\* The error of the decoder for the value of e.
DecodeError(e) ==
    IF ~decodeTextures(PairValue(e)).b64
    THEN Sentinel("base64.CorruptInputError")
    ELSE Sentinel("json.Error")

\* The payload of a textures pair breaks the structure populateTextures
\* relies on.
BreaksStructure(e) ==
    PairName(e) = "textures" /\ populateTextures(PairValue(e), Props("", "", Steve)).panic

\* The pairs of a list whose name is "textures", in their order.
TexturesPairs(a) == SelectSeq(a, LAMBDA e : PairName(e) = "textures")

\* C30: over a list of {name, value} pairs, pairs whose name is not
\* "textures" are ignored (the results are those for the list without
\* them) and never cause an error: a list with none but such pairs, the
\* empty one included, yields zero-valued Properties and no error; and the
\* first textures pair whose value fails base64 or JSON decoding, none
\* before it breaking the structure, aborts the aggregation, which returns
\* no Properties and the decoder's error itself, not wrapped.
C30_PropertiesAggregation ==
    BuiltProperties =>
        LET a == in.j.a
            ignoring == buildProperties(TexturesPairs(a))
        IN  /\ ret.panic = ignoring.panic
            /\ ret.panic \/ (ret.props = ignoring.ps /\ ret.err = ignoring.err)
            /\ TexturesPairs(a) = <<>>
                  => ~ret.panic /\ ret.err = NoErr /\ ret.props = Props("", "", Steve)
            /\ \A k \in 1 .. Len(a) :
                  (/\ FailsDecoding(a[k])
                   /\ \A i \in 1 .. k - 1 : ~FailsDecoding(a[i]) /\ ~BreaksStructure(a[i]))
                      => /\ ~ret.panic
                         /\ ret.props = NilProps
                         /\ ret.err = DecodeError(a[k])
                         /\ ret.err.Op = ""

\* buildProperties was given a textures pair with a skin and then a
\* textures pair that is no base64: it returned no Properties, not those
\* the first pair populated, and the base64 error.
C30_Witness ==
    /\ BuiltProperties /\ Len(in.j.a) = 2
    /\ PairName(in.j.a[1]) = "textures" /\ ~FailsDecoding(in.j.a[1]) /\ ~BreaksStructure(in.j.a[1])
    /\ populateTextures(PairValue(in.j.a[1]), Props("", "", Steve)).props.SkinURL = "s.png"
    /\ FailsDecoding(in.j.a[2]) /\ PairValue(in.j.a[2]) = "!"
    /\ ~ret.panic /\ ret.props = NilProps /\ ret.err = Sentinel("base64.CorruptInputError")

\* buildProperties was given two pairs of unrecognized names and returned
\* zero-valued Properties.
C30_WitnessIgnored ==
    /\ BuiltProperties /\ Len(in.j.a) = 2
    /\ PairName(in.j.a[1]) = "other" /\ PairName(in.j.a[2]) = "signature"
    /\ ~ret.panic /\ ret.err = NoErr /\ ret.props = Props("", "", Steve)

(***************************************************************************)
(* Properties of the Store (SpecStore).  In a step of SpecStore that calls *)
(* an operation, cache is the cache before the call; in', ret', netLog'    *)
(* and cache' are the call made, the returned values, the requests sent    *)
(* and the cache after it.                                                 *)
(***************************************************************************)
\* A Store with a cache has been called in this step: every operation reads
\* the cache once.
StoreStep == ~cache.nil /\ Len(cache'.CacheReads) = Len(cache.CacheReads) + 1

\* The cache query that matches an operation.
Query(c, op, arg, tm) ==
    CASE op = "Store.Load" -> GetName(c, arg)
      [] op = "Store.LoadAtTime" -> GetNameAtTime(c, arg, tm)
      [] OTHER -> GetID(c, arg)

\* The answer g of the query is a hit that serves op.
Sufficient(g, op) ==
    /\ g.ok
    /\ op = "Store.LoadWithNameHistory" => ~g.entry.NameHistory.nil
    /\ op = "Store.LoadWithProperties" => ~g.entry.Properties.nil

\* What the cache holds, apart from its log of reads.
Contents(c) == <<c.EntriesByID, c.IDsByName, c.IDsByNameAndTime>>

\* The package-level load that op wraps, on the call i.
Loader(i) ==
    CASE i.op = "Store.Load" -> LoadNoCtx(i.arg, i.out)
      [] i.op = "Store.LoadAtTime" -> LoadAtTimeNoCtx(i.arg, i.t, i.out)
      [] i.op = "Store.LoadByID" -> LoadByIDNoCtx(i.arg, i.out)
      [] i.op = "Store.LoadWithNameHistory" -> LoadWithNameHistoryNoCtx(i.arg, i.out)
      [] OTHER -> LoadWithPropertiesNoCtx(i.arg, i.out)

\* C2: when the matching cache query of a Store operation reports a hit
\* that is sufficient for the operation, the operation returns a Profile
\* built from that entry and a nil error, sends no request and leaves the
\* contents of the cache as they were.
C2_SufficientHitShortCircuits ==
    [][(StoreStep /\ Sufficient(Query(cache, ret'.op, ret'.arg, ret'.t), ret'.op))
         => /\ ~ret'.panic /\ ret'.err = NoErr
            /\ ret'.p = cToP(Query(cache, ret'.op, ret'.arg, ret'.t).entry, cache)
            /\ netLog' = <<>>
            /\ Contents(cache') = Contents(cache)]_vars

\* A call of Store.LoadWithProperties was served from the cache.
C2_Witness ==
    /\ ret.op = "Store.LoadWithProperties" /\ ~cache.nil
    /\ ~ret.p.nil /\ ~ret.p.properties.nil /\ ret.err = NoErr /\ netLog = <<>>

\* C3: on a cache miss or an insufficient hit a Store operation performs
\* the load of the package; if the load succeeds the loaded profile's ID,
\* Name, NameHistory and Properties are passed to Cache (and the username,
\* time and loaded ID to CacheNameAtTime by Store.LoadAtTime), and
\* afterwards the matching cache query finds the profile.
C3_LoadedProfileIsCachedAndFound ==
    [][(/\ StoreStep
        /\ ~Sufficient(Query(cache, ret'.op, ret'.arg, ret'.t), ret'.op)
        /\ ~ret'.panic /\ ret'.err = NoErr)
         => /\ netLog' = Loader(in').net /\ netLog' # <<>>
            /\ ret'.p = [Loader(in').p EXCEPT !.cache = TRUE]
            /\ cache' = IF ret'.op = "Store.LoadAtTime"
                        THEN CacheNameAtTime(
                                 Cache(Query(cache, ret'.op, ret'.arg, ret'.t).cache, pToC(ret'.p)),
                                 ret'.arg, ret'.t, ret'.p.id)
                        ELSE Cache(Query(cache, ret'.op, ret'.arg, ret'.t).cache, pToC(ret'.p))
            /\ Query(cache', ret'.op, ret'.arg, ret'.t).ok
            /\ Query(cache', ret'.op, ret'.arg, ret'.t).entry = pToC(ret'.p)]_vars

\* Store.LoadWithProperties has loaded a profile and cached it under an ID
\* other than the requested one.
C3_CachedUnderAnotherID ==
    /\ ret.op = "Store.LoadWithProperties" /\ ~cache.nil
    /\ ~ret.panic /\ ret.err = NoErr /\ netLog # <<>>
    /\ ret.p.id # ret.arg
    /\ ret.p.id \in DOMAIN cache.EntriesByID
    /\ ret.arg \notin DOMAIN cache.EntriesByID

\* C4: when the load behind a Store operation fails, the operation returns
\* the error of that load and a nil profile, and the contents of the cache
\* are what they were before the call.
C4_FailedLoadCachesNothing ==
    [][(/\ StoreStep
        /\ ~Sufficient(Query(cache, ret'.op, ret'.arg, ret'.t), ret'.op)
        /\ ~Loader(in').panic /\ Loader(in').err # NoErr)
         => /\ ~ret'.panic /\ ret'.err = Loader(in').err /\ ret'.p.nil
            /\ netLog' = Loader(in').net
            /\ Contents(cache') = Contents(cache)]_vars

\* The cached entry of a profile held no name history, and loading the
\* history failed at the service.
C4_Witness ==
    /\ ret.op = "Store.LoadWithNameHistory" /\ ~cache.nil
    /\ ret.err # NoErr /\ ret.p.nil /\ netLog # <<>>
    /\ ret.arg \in DOMAIN cache.EntriesByID
    /\ cache.EntriesByID[ret.arg].NameHistory.nil

\* A step from here is a call of an operation of a Store with a cache (the
\* log of reads has been cleared).
StoreCalled == ~cache.nil /\ cache.CacheReads = <<>>

\* The log entry of the query that matches the operation op called with arg
\* and tm.
ExpectedRead(op, arg, tm) ==
    CASE op = "Store.Load" -> cacheLogEntry(arg, "", ZeroTime)
      [] op = "Store.LoadAtTime" -> cacheLogEntry(arg, "", tm)
      [] OTHER -> cacheLogEntry("", arg, ZeroTime)

\* C18: a call of a Store operation with a cache reads the cache exactly
\* once, with the query of the operation on the caller's arguments
\* (GetName(username), GetNameAtTime(username, tm), GetID(id)), whether it
\* ends in a hit, a miss, an error or a panic; and a request is sent only
\* when the answer of that query does not serve the call.
C18_CacheConsultedOnce ==
    [][StoreCalled
         => /\ cache'.CacheReads = <<ExpectedRead(ret'.op, ret'.arg, ret'.t)>>
            /\ netLog' # <<>>
                 => ~Sufficient(Query(cache, ret'.op, ret'.arg, ret'.t), ret'.op)]_vars

\* Store.LoadAtTime missed the cache, its load failed at the service, and
\* the log holds the one read GetNameAtTime(username, tm).
C18_Witness ==
    /\ ret.op = "Store.LoadAtTime" /\ ~cache.nil
    /\ ret.arg # ""
    /\ netLog # <<>> /\ ret.err # NoErr
    /\ cache.CacheReads = <<cacheLogEntry(ret.arg, "", ret.t)>>

\* The last call loaded a profile from the service and cached it, and this
\* step repeats it: the same operation, the same arguments, the service
\* answering as before.
RepeatedLoad ==
    /\ StoreCalled
    /\ ~ret.panic /\ ret.err = NoErr /\ netLog # <<>>
    /\ in' = in

\* The profiles agree on ID and Name, and on NameHistory and Properties, nil
\* or not.
SameProfile(a, b) ==
    /\ a.nil = b.nil
    /\ a.id = b.id /\ a.name = b.name
    /\ a.history = b.history
    /\ a.properties = b.properties

\* C20: when a Store operation has loaded a profile from the service and
\* cached it, the same operation with the same arguments, the service
\* unchanged, is served from the cache (no request) and returns a Profile
\* equal to the loaded one on ID, Name, NameHistory and Properties.
C20_CacheRoundTrip ==
    [][RepeatedLoad
         => /\ netLog' = <<>>
            /\ ~ret'.panic /\ ret'.err = NoErr
            /\ SameProfile(ret'.p, ret.p)]_vars

\* Store.LoadWithProperties, asked for an ID in a spelling the service does
\* not answer with, has loaded the profile; the cache holds it under the
\* service's spelling only, where the same call does not find it.
C20_RepeatMissesCache ==
    /\ in.op = "Store.LoadWithProperties" /\ ~cache.nil
    /\ ~ret.panic /\ ret.err = NoErr
    /\ netLog = Get(loadWithPropertiesURL(in.arg))
    /\ \E id \in DOMAIN cache.EntriesByID : cache.EntriesByID[id] = pToC(ret.p)
    /\ ~GetID(cache, in.arg).ok

(***************************************************************************)
(* Properties of lazy loading through a Store (SpecLazy).  In a step that  *)
(* calls a method of the Profile, p and cache are the Profile and the      *)
(* cache before the call; ret'.p is the profile the call loaded.           *)
(***************************************************************************)
\* This step calls the lazy-load method op on a Profile that is attached to
\* the cache of its Store and whose field is not loaded.
LazyLoadStep(op) ==
    /\ Running
    /\ ~p.nil /\ p.cache
    /\ in'.op = op
    /\ IF op = "Profile.LoadProperties" THEN p.properties.nil ELSE p.history.nil

\* The call of this step read the cache once, by the ID of the Profile, and
\* if it then loaded from the service the loaded profile is in the cache.
ReadAndWroteCache ==
    /\ cache'.CacheReads = <<cacheLogEntry("", p.id, ZeroTime)>>
    /\ (netLog' # <<>> /\ ~ret'.panic /\ ret'.err = NoErr)
         => \E id \in DOMAIN cache'.EntriesByID : cache'.EntriesByID[id] = pToC(ret'.p)

\* C19: LoadProperties() and LoadNameHistory() on a Profile obtained from a
\* Store with a cache, the field not being loaded, read the cache by the
\* profile's ID exactly once, and when the data comes from the service the
\* loaded profile is written to the cache.
C19_LazyLoadUsesStore ==
    [][(LazyLoadStep("Profile.LoadProperties") \/ LazyLoadStep("Profile.LoadNameHistory"))
         => ReadAndWroteCache]_vars

\* LoadNameHistory() on a Profile obtained from a Store with a cache has
\* loaded the history from the service; the cache was not read and holds no
\* entry with that history.
C19_HistoryLoadedPastCache ==
    /\ in.op = "Profile.LoadNameHistory"
    /\ ~cache.nil /\ ~p.nil /\ p.cache
    /\ netLog # <<>> /\ ~ret.panic /\ ret.err = NoErr
    /\ p.history = ret.p.history /\ ~p.history.nil
    /\ cache.CacheReads = <<>>
    /\ \A id \in DOMAIN cache.EntriesByID : cache.EntriesByID[id].NameHistory.nil

\* This step writes to the slice that p.NameHistory() returned.
WriteStep ==
    /\ ret.op = "Profile.NameHistory" /\ ret'.op = "Profile.NameHistory"
    /\ in' = in /\ ret'.hist # ret.hist

\* This step is a call of p.NameHistory(), which returns ret'.hist.
AccessorStep == ret'.op = "Profile.NameHistory" /\ ~WriteStep

AccessorReturned == ret.op = "Profile.NameHistory"

\* C21: NameHistory() returns nil exactly when the history of the Profile is
\* not loaded; a loaded history (an empty one too) is returned as a slice
\* that is not nil and holds the same names, and a write to the returned
\* slice never changes the history stored in the Profile.
C21_AccessorTellsUnloaded ==
    [][/\ AccessorStep
            => /\ ret'.hist.nil <=> p.history.nil
               /\ ~p.history.nil => ret'.hist.v = p.history.v
               /\ p' = p
       /\ WriteStep => p' = p]_vars

\* NameHistory() on a Profile whose history is not loaded has returned an
\* empty slice that is not nil.
C21_EmptySliceForUnloaded ==
    /\ AccessorReturned
    /\ ~p.nil /\ p.history.nil
    /\ ~ret.hist.nil /\ ret.hist.v = <<>>

\* This step is a call of Store.LoadWithNameHistory or
\* Store.LoadWithProperties, on a Store with a cache, that asked the
\* service and got a profile.
FieldLoadStep ==
    /\ StoreStep
    /\ ret'.op \in {"Store.LoadWithNameHistory", "Store.LoadWithProperties"}
    /\ netLog' # <<>> /\ ~ret'.panic /\ ret'.err = NoErr

\* C23: when Store.LoadWithNameHistory (Store.LoadWithProperties) reaches
\* the network, the cached entry lacking the NameHistory (the Properties),
\* the CacheEntry it writes under the loaded profile's ID is built from the
\* freshly loaded profile alone: the field the operation did not fetch is
\* nil in the written entry, whatever the previous entry of that ID held.
C23_OverwritesWholesale ==
    [][FieldLoadStep
         => /\ ~Sufficient(Query(cache, ret'.op, ret'.arg, ret'.t), ret'.op)
            /\ ret'.p.id \in DOMAIN cache'.EntriesByID
            /\ cache'.EntriesByID[ret'.p.id] = pToC(Loader(in').p)
            /\ ret'.op = "Store.LoadWithNameHistory"
                 => cache'.EntriesByID[ret'.p.id].Properties.nil
            /\ ret'.op = "Store.LoadWithProperties"
                 => cache'.EntriesByID[ret'.p.id].NameHistory.nil]_vars

\* The client holds a Profile with the Properties that the Store loaded,
\* and so cached, for its ID; Store.LoadWithNameHistory of that ID has then
\* asked the service, and the entry of the ID now holds the history and nil
\* Properties.
C23_Witness ==
    /\ ~p.nil /\ p.cache /\ ~p.properties.nil /\ p.history.nil
    /\ ret.op = "Store.LoadWithNameHistory" /\ ret.arg = p.id
    /\ netLog # <<>> /\ ~ret.panic /\ ret.err = NoErr
    /\ p.id \in DOMAIN cache.EntriesByID
    /\ ~cache.EntriesByID[p.id].NameHistory.nil
    /\ cache.EntriesByID[p.id].Properties.nil

(***************************************************************************)
(* Properties of LoadProperties under its mutex (SpecMutex).               *)
(***************************************************************************)
\* The call of g asked the service and got a profile.
LoadSucceeded(g) ==
    /\ calls[g].fetched /\ calls[g].err = NoErr /\ ~calls[g].loaded.nil
    /\ calls[g].pc \in {"memoize", "return", "done"}

\* The call of g asked the service and got an error, which it returned.
LoadFailed(g) == calls[g].fetched /\ calls[g].err # NoErr /\ calls[g].pc = "done"

\* The call of g returned without asking the service.
ReturnedMemoized(g) == ~calls[g].fetched /\ calls[g].pc = "done"

\* C22: when several goroutines call LoadProperties() on one Profile whose
\* properties are not loaded, under every interleaving at most one call
\* performs a load that succeeds, no call asks the service once the
\* Properties are memoized, a call that did not ask the service returns the
\* Properties the successful load memoized, and a failed load returns nil
\* and memoizes nothing: the Profile holds Properties only once a load has
\* succeeded.
C22_MemoizedOnce ==
    /\ Cardinality({g \in MutexGoroutines : LoadSucceeded(g)}) <= 1
    /\ \A g \in MutexGoroutines :
         /\ calls[g].pc = "load" => p.properties.nil
         /\ ReturnedMemoized(g)
              => /\ ~calls[g].result.nil
                 /\ \E h \in MutexGoroutines :
                      LoadSucceeded(h) /\ calls[g].result = calls[h].loaded.properties
         /\ LoadFailed(g) => calls[g].result.nil
    /\ ~p.properties.nil
         => \E h \in MutexGoroutines :
              /\ LoadSucceeded(h) /\ calls[h].pc \in {"return", "done"}
              /\ p.properties = calls[h].loaded.properties

\* Three calls have returned: the load of one failed, the next call loaded
\* again and succeeded, and the third returned the memoized Properties
\* without asking the service.
C22_Witness ==
    \E f, g, h \in MutexGoroutines :
        /\ LoadFailed(f) /\ calls[f].result.nil
        /\ LoadSucceeded(g) /\ calls[g].pc = "done" /\ calls[g].result = p.properties
        /\ ReturnedMemoized(h) /\ calls[h].result = p.properties
        /\ ~p.properties.nil /\ p.mutex = ""

(***************************************************************************)
(* Properties of concurrent lazy loads (SpecConc).                         *)
(***************************************************************************)
\* Goroutine g is inside a lazy-load method: between the test of the field
\* and the return, the section a lock held for the call would cover.
InCall(g) == calls[g].pc # "idle"

\* The field a lazy-load method loads, of the profile prof.
Field(prof, method) ==
    IF method = "LoadProperties" THEN prof.Properties ELSE prof.NameHistory

\* The calls of g and h are of the same kind, both have loaded and written,
\* and the Profile holds the Name that g loaded with the field that h
\* loaded, which are not those of one load.
Mixed(g, h) ==
    /\ calls[g].method = calls[h].method
    /\ calls[g].pc = "return" /\ calls[h].pc = "return"
    /\ ~calls[g].loaded.nil /\ ~calls[h].loaded.nil
    /\ calls[g].err = NoErr /\ calls[h].err = NoErr
    /\ calls[g].loaded.Name # calls[h].loaded.Name
    /\ Field(calls[g].loaded, calls[g].method) # Field(calls[h].loaded, calls[h].method)
    /\ p.Name = calls[g].loaded.Name
    /\ Field(p, calls[h].method) = Field(calls[h].loaded, calls[h].method)

\* C5: concurrent lazy-load calls on one Profile are serialized: no two
\* goroutines are inside a lazy-load method of the Profile at once, and the
\* Profile never holds the Name of one load together with the Properties
\* (or NameHistory) of a different, concurrent load of the same kind.
C5_LazyLoadsSerialized ==
    \A g, h \in Goroutines :
        g # h => ~(InCall(g) /\ InCall(h)) /\ ~Mixed(g, h)

\* Two concurrent calls have left the Profile with the Name of one load and
\* the Properties of the other.
C5_MixedState ==
    \E g, h \in Goroutines :
        g # h /\ calls[g].method = "LoadProperties" /\ Mixed(g, h)

====
